---- MODULE Spec2Model ----
(***************************************************************************)
(* Verification model of bevy_metrics_dashboard.                           *)
(*                                                                         *)
(* The module holds several specifications over one set of variables, one  *)
(* per part of the crate:                                                  *)
(*   SpecRing     - the resizable ring buffer (src/src/ring.rs)             *)
(*   SpecBucket   - add_value_to_bucket (src/src/plots.rs)                  *)
(*   SpecHist     - HistogramData: update, configure_ui and the raw sample  *)
(*                  block of its metric (src/src/plots.rs)                  *)
(*   SpecCycle    - the Last schedule: update_plots_on_all_windows and      *)
(*                  clear_atomic_buckets, with producers recording          *)
(*   SpecDescribe - describe_counter / _gauge / _histogram from threads     *)
(*                                                                         *)
(* Vectors are TLA+ sequences; the Rust code's 0-based indices are kept    *)
(* and translated at the point of access (At, SetAt, ...).                 *)
(***************************************************************************)
EXTENDS Integers, Sequences, FiniteSets, TLC

VARIABLES
    \* SpecRing: the ring, and what was done to it
    ring, ringPushed, ringResizes, ringLog, ringPanicked,
    \* SpecBucket: boundaries, bucket counts, the last value added
    bkBounds, bkCounts, bkLast,
    \* SpecHist: one histogram plot and the raw sample block of its metric
    hist, hSource, hRecorded, hPhase, hLog, hUiEvents,
    \* SpecCycle: dashboard windows, the Last schedule, producers
    cWindows, cSource, cRecordedN, cCleared, cFolded, cPhase, cSys, cPos,
    cUpdated, cClearRuns, cCycle, cToggles,
    \* SpecDescribe: the description store, its lock, the calling threads
    descriptions, dLock, dThreads, dFirst, dLast, dCalls,
    \* SpecRegister: the registry's counters, the threads registering and incrementing
    reg, regThreads, regIncs,
    \* SpecTree: the registered metric names and the namespace tree of the last refresh
    treeNames, treeRoots, treeBuilt,
    \* SpecSearch: the registry's metrics and descriptions, a search bar, its search tasks, the clock
    sbRegistry, sbDescriptions, sb, sbTasks, sbNow, sbFrames, sbLog, sbEdits,
    \* SpecPlugin: the process-wide recorder, the app a RegistryPlugin is built into, its registry
    plGlobal, plApp, plErrors, plLog, plReg, plHandles, plOps, plClears, plDiscarded,
    \* SpecDash: a dashboard window, the cached plot configs, the last operation
    dashWindow, dashCached, dashOps, dashLast, dashPanicked,
    \* what the last draw_plots did, the config of the plot removed last for each key,
    \* the keys whose cache entry the application wrote after that
    dashLog, dashRemovedConfig, dashInserted,
    \* SpecTasks: a namespace tree window, its refresh tasks, its clock, the registered names
    tw, twTasks, twNow, twFrames, twNames

ringVars == <<ring, ringPushed, ringResizes, ringLog, ringPanicked>>

bkVars == <<bkBounds, bkCounts, bkLast>>

histVars == <<hist, hSource, hRecorded, hPhase, hLog, hUiEvents>>

cycleVars ==
    <<cWindows, cSource, cRecordedN, cCleared, cFolded, cPhase, cSys, cPos,
      cUpdated, cClearRuns, cCycle, cToggles>>

descVars == <<descriptions, dLock, dThreads, dFirst, dLast, dCalls>>

regVars == <<reg, regThreads, regIncs>>

treeVars == <<treeNames, treeRoots, treeBuilt>>

sbVars == <<sbRegistry, sbDescriptions, sb, sbTasks, sbNow, sbFrames, sbLog, sbEdits>>

plVars == <<plGlobal, plApp, plErrors, plLog, plReg, plHandles, plOps, plClears, plDiscarded>>

dashVars == <<dashWindow, dashCached, dashOps, dashLast, dashPanicked,
              dashLog, dashRemovedConfig, dashInserted>>

twVars == <<tw, twTasks, twNow, twFrames, twNames>>

vars == <<ringVars, bkVars, histVars, cycleVars, descVars, regVars, treeVars, sbVars, plVars, dashVars, twVars>>

\* what the actions of one specification leave alone
ringOthers == <<bkVars, histVars, cycleVars, descVars, regVars, treeVars, sbVars, plVars, dashVars, twVars>>

bkOthers == <<ringVars, histVars, cycleVars, descVars, regVars, treeVars, sbVars, plVars, dashVars, twVars>>

histOthers == <<ringVars, bkVars, cycleVars, descVars, regVars, treeVars, sbVars, plVars, dashVars, twVars>>

cycleOthers == <<ringVars, bkVars, histVars, descVars, regVars, treeVars, sbVars, plVars, dashVars, twVars>>

descOthers == <<ringVars, bkVars, histVars, cycleVars, regVars, treeVars, sbVars, plVars, dashVars, twVars>>

regOthers == <<ringVars, bkVars, histVars, cycleVars, descVars, treeVars, sbVars, plVars, dashVars, twVars>>

treeOthers == <<ringVars, bkVars, histVars, cycleVars, descVars, regVars, sbVars, plVars, dashVars, twVars>>

sbOthers == <<ringVars, bkVars, histVars, cycleVars, descVars, regVars, treeVars, plVars, dashVars, twVars>>

plOthers == <<ringVars, bkVars, histVars, cycleVars, descVars, regVars, treeVars, sbVars, dashVars, twVars>>

dashOthers == <<ringVars, bkVars, histVars, cycleVars, descVars, regVars, treeVars, sbVars, plVars, twVars>>

twOthers == <<ringVars, bkVars, histVars, cycleVars, descVars, regVars, treeVars, sbVars, plVars, dashVars>>

(***************************************************************************)
(* Bounds of the model.                                                    *)
(***************************************************************************)
\* largest ring size (Ring::new argument and resize argument)
MaxSize == 5
\* number of push calls in one behaviour
MaxPush == 6
\* number of resize calls in one behaviour
MaxResizes == 2
\* longest boundary list of SpecBucket
MaxBounds == 3
\* boundaries of SpecBucket are drawn from 0..MaxBoundary
MaxBoundary == 4
\* number of add_value_to_bucket calls in one behaviour of SpecBucket
MaxAdds == 2
\* largest n_buckets a DragValue input sets
MaxBuckets == 2
\* the window size slider offers 1..MaxWindow (100..=5000 in the crate)
MaxWindow == 3
\* samples recorded in one behaviour of SpecHist
MaxSamples == 3
\* configure_ui events in one behaviour of SpecHist
MaxUiEvents == 2
\* samples recorded in one behaviour of SpecCycle
MaxCycleSamples == 3
\* runs of the Last schedule in one behaviour of SpecCycle
MaxCycles == 2
\* clicks on a "Pause" checkbox in one behaviour of SpecCycle
MaxToggles == 2
\* threads that call describe_*, and threads that call register_counter
NThreads == 2
\* describe_* calls in one behaviour of SpecDescribe
MaxDescribeCalls == 3
\* increments a thread makes through its counter handle
MaxIncrements == 2
\* longest metric name, in characters
MaxNameLen == 8
\* number of metrics registered in one behaviour of SpecTree
MaxNames == 2
\* number of metrics registered in one behaviour of SpecSearch
MaxMetrics == 2
\* number of describe_* calls in one behaviour of SpecSearch
MaxSearchDescribes == 1
\* number of frames in which the search bar is drawn
MaxFrames == 3
\* number of changes of the search input in one behaviour of SpecSearchLive
MaxEdits == 2

\* registrations, records and descriptions made in SpecPlugin
MaxPluginOps == 4

\* runs of the clear step in SpecPlugin
MaxPluginClears == 2

\* operations on the dashboard window in SpecDash
MaxDashOps == 4

\* plots of the dashboard window at one time
MaxPlots == 3

\* number of frames in which the namespace tree window is drawn
MaxTreeFrames == 3

(***************************************************************************)
(* Vec<T> helpers (0-based indices as in the Rust code).                   *)
(***************************************************************************)
\* T::default() for the numeric element types the crate stores (u64, f64)
Default == 0

Min(a, b) == IF a < b THEN a ELSE b

\* s[i]
At(s, i) == s[i + 1]

\* s[i] = v
SetAt(s, i, v) == [s EXCEPT ![i + 1] = v]

\* Vec::resize(n, v)
VecResize(s, n, v) == [k \in 1..n |-> IF k <= Len(s) THEN s[k] ELSE v]

\* Vec::truncate(n)
VecTruncate(s, n) == IF n < Len(s) THEN SubSeq(s, 1, n) ELSE s

\* slice::copy_within(src_start..src_end, dst): memmove semantics
CopyWithin(s, src_start, src_end, dst) ==
    [k \in 1..Len(s) |->
        IF (k - 1) >= dst /\ (k - 1) < dst + (src_end - src_start)
        THEN s[(k - 1) - dst + src_start + 1]
        ELSE s[k]]

\* s[a..b].fill(v)
SliceFill(s, a, b, v) ==
    [k \in 1..Len(s) |-> IF (k - 1) >= a /\ (k - 1) < b THEN v ELSE s[k]]

\* the last n elements of s
LastN(s, n) == SubSeq(s, Len(s) - n + 1, Len(s))

\* s is a (not necessarily contiguous) subsequence of t
RECURSIVE IsSubseq(_, _)
IsSubseq(s, t) ==
    IF Len(s) = 0 THEN TRUE
    ELSE IF Len(t) = 0 THEN FALSE
    ELSE IF Head(s) = Head(t) THEN IsSubseq(Tail(s), Tail(t))
    ELSE IsSubseq(s, Tail(t))

(***************************************************************************)
(* Ring<T>  (src/src/ring.rs)                                              *)
(* A ring is a record [elements, cursor].                                  *)
(***************************************************************************)
RingNew(size) ==
    [elements |-> [k \in 1..size |-> Default], cursor |-> size - 1]

size(r) == Len(r.elements)

latest(r) == At(r.elements, r.cursor)

oldest_index(r) == (r.cursor + 1) % Len(r.elements)

\* a variant of push that writes the slot before advancing the cursor
push_stale_cursor(r, elem) ==
    [elements |-> SetAt(r.elements, r.cursor, elem),
     cursor   |-> oldest_index(r)]

push(r, elem) ==
    LET c == oldest_index(r)
    IN  [elements |-> SetAt(r.elements, c, elem), cursor |-> c]

iter_chronological(r) ==
    IF oldest_index(r) = 0
    THEN r.elements
    ELSE SubSeq(r.elements, oldest_index(r) + 1, Len(r.elements))
            \o SubSeq(r.elements, 1, r.cursor + 1)

translate_left(elements, n_move, translate, dst_start) ==
    LET src_start == dst_start + translate
        src_end   == src_start + n_move
    IN  CopyWithin(elements, src_start, src_end, dst_start)

grow(r, new_size) ==
    LET old_size     == Len(r.elements)
        old_last_i   == old_size - 1
        oldest_i     == oldest_index(r)
        oldest_value == At(r.elements, oldest_i)
        resized      == VecResize(r.elements, new_size, Default)
        translate    == new_size - old_size
        copied       == CopyWithin(resized, oldest_i, old_size, oldest_i + translate)
    IN  IF r.cursor = old_last_i
        THEN [elements |-> resized, cursor |-> r.cursor]
        ELSE [elements |-> SliceFill(copied, oldest_i, old_size, oldest_value),
              cursor   |-> r.cursor]

\* a variant of shrink that truncates without first moving the elements
shrink_truncate_only(r, new_size) ==
    [elements |-> VecTruncate(r.elements, new_size),
     cursor   |-> Min(r.cursor, new_size - 1)]

shrink(r, new_size) ==
    LET old_size   == Len(r.elements)
        new_last_i == new_size - 1
    IN  IF r.cursor = new_last_i
        THEN [elements |-> VecTruncate(r.elements, new_size), cursor |-> r.cursor]
        ELSE IF r.cursor < new_size
        THEN LET n_move    == new_last_i - r.cursor
                 translate == old_size - new_size
                 dst_start == r.cursor + 1
             IN  [elements |-> VecTruncate(
                                 translate_left(r.elements, n_move, translate, dst_start),
                                 new_size),
                  cursor   |-> r.cursor]
        ELSE LET n_move    == new_size
                 translate == r.cursor - new_last_i
                 dst_start == 0
             IN  [elements |-> VecTruncate(
                                 translate_left(r.elements, n_move, translate, dst_start),
                                 new_size),
                  cursor   |-> new_last_i]

resize(r, new_size) ==
    LET old_size == Len(r.elements)
    IN  IF new_size = old_size THEN r
        ELSE IF new_size = 0
        THEN [elements |-> VecTruncate(r.elements, 0), cursor |-> r.cursor]
        ELSE IF new_size < old_size THEN shrink(r, new_size)
        ELSE grow(r, new_size)

\* push evaluates `% self.elements.len()`: a panic on an empty ring
PushPanics(r) == Len(r.elements) = 0

\* resize reaches grow (and its oldest_index) only for 0 = old_size < new_size
ResizePanics(r, new_size) == Len(r.elements) = 0 /\ new_size > 0

(***************************************************************************)
(* Option<T>: None is the empty sequence, Some(x) the one-element one.     *)
(***************************************************************************)
None == <<>>

Some(x) == <<x>>

is_some(o) == Len(o) = 1

unwrap(o) == o[1]

(***************************************************************************)
(* Generic sequence helpers.                                               *)
(***************************************************************************)
Zeros(n) == [k \in 1..n |-> 0]

Reverse(s) == [k \in 1..Len(s) |-> s[Len(s) + 1 - k]]

RECURSIVE SumSeq(_)
SumSeq(s) == IF Len(s) = 0 THEN 0 ELSE Head(s) + SumSeq(Tail(s))

\* number of occurrences of x in s
RECURSIVE CountOf(_, _)
CountOf(s, x) ==
    IF Len(s) = 0 THEN 0
    ELSE (IF Head(s) = x THEN 1 ELSE 0) + CountOf(Tail(s), x)

\* s and t hold the same elements with the same multiplicities
SameBag(s, t) ==
    /\ Len(s) = Len(t)
    /\ \A i \in 1..Len(s) : CountOf(s, s[i]) = CountOf(t, s[i])

\* insertion of x into the ascending sequence s
RECURSIVE InsertSorted(_, _)
InsertSorted(s, x) ==
    IF Len(s) = 0 THEN <<x>>
    ELSE IF x <= Head(s) THEN <<x>> \o s
    ELSE <<Head(s)>> \o InsertSorted(Tail(s), x)

\* sort_unstable_by_key(FloatOrd): ascending order
RECURSIVE SortAscending(_)
SortAscending(s) == IF Len(s) = 0 THEN <<>> ELSE InsertSorted(SortAscending(Tail(s)), Head(s))

RECURSIVE Factorial(_)
Factorial(n) == IF n <= 1 THEN 1 ELSE n * Factorial(n - 1)

(***************************************************************************)
(* Sample values and boundaries are f64 in the crate and integers here.    *)
(* ValueUnit is the grid the DragValue inputs lie on; it is divisible by   *)
(* every n_buckets the model offers, so that (max - min) / n_buckets is    *)
(* exact, and it stands for the 0.001 of clamp_min and clamp_max.          *)
(***************************************************************************)
ValueUnit == Factorial(MaxBuckets)

Epsilon == ValueUnit

(***************************************************************************)
(* add_value_to_bucket  (src/src/plots.rs)                                 *)
(***************************************************************************)
\* slice::binary_search_by_key over FloatOrd keys: [ok, i] stands for Ok(i)
\* and Err(i).  For a strictly ascending slice the result does not depend
\* on which bisection the standard library uses.
RECURSIVE binary_search(_, _, _, _)
binary_search(bucket_bounds, value, lo, hi) ==
    IF lo >= hi THEN [ok |-> FALSE, i |-> lo]
    ELSE LET mid == lo + ((hi - lo) \div 2)
         IN  IF At(bucket_bounds, mid) = value THEN [ok |-> TRUE, i |-> mid]
             ELSE IF At(bucket_bounds, mid) < value
             THEN binary_search(bucket_bounds, value, mid + 1, hi)
             ELSE binary_search(bucket_bounds, value, lo, mid)

\* a variant that puts a value equal to a boundary into the bucket above it
add_value_to_bucket_open_upper(bucket_bounds, value, bucket_counts) ==
    LET r        == binary_search(bucket_bounds, value, 0, Len(bucket_bounds))
        bucket_i == IF r.ok THEN r.i + 1 ELSE r.i
    IN  SetAt(bucket_counts, bucket_i, At(bucket_counts, bucket_i) + 1)

add_value_to_bucket(bucket_bounds, value, bucket_counts) ==
    LET r        == binary_search(bucket_bounds, value, 0, Len(bucket_bounds))
        bucket_i == IF r.ok THEN r.i ELSE r.i
    IN  SetAt(bucket_counts, bucket_i, At(bucket_counts, bucket_i) + 1)

\* add_value_to_bucket for each value of a sequence, in order
RECURSIVE add_values_to_buckets(_, _, _)
add_values_to_buckets(bucket_bounds, values, bucket_counts) ==
    IF Len(values) = 0 THEN bucket_counts
    ELSE add_values_to_buckets(bucket_bounds, Tail(values),
            add_value_to_bucket(bucket_bounds, Head(values), bucket_counts))

(***************************************************************************)
(* BucketRange, BucketConfig, HistogramPlotConfig  (src/src/plots.rs)      *)
(***************************************************************************)
clamp_min(ri) ==
    [ri EXCEPT !.min = Min(ri.min, ri.max - Epsilon)]

clamp_max(ri) ==
    [ri EXCEPT !.max = IF ri.min + Epsilon > ri.max THEN ri.min + Epsilon ELSE ri.max]

\* assert!(self.max > self.min) guards the call; n_buckets >= 1 at every call
BucketRange_get_bounds(ri) ==
    LET width == (ri.max - ri.min) \div ri.n_buckets
    IN  [k \in 1..(ri.n_buckets + 1) |-> ri.min + (k - 1) * width]

\* min: 0.0, max: 10.0, n_buckets: 10 in the crate
BucketRange_default ==
    [n_buckets |-> 2, min |-> 0, max |-> 2 * ValueUnit]

BucketConfig_get_bounds(buckets) ==
    IF buckets.range_input.n_buckets = 0 THEN None
    ELSE Some(SortAscending(BucketRange_get_bounds(buckets.range_input)))

BucketConfig_default ==
    [bounds      |-> BucketRange_get_bounds(BucketRange_default),
     range_input |-> BucketRange_default]

\* the window size a fresh histogram plot and a re-enabled sliding window
\* start with (500 in the crate)
DefaultWindowSize == 2

HistogramPlotConfig_default ==
    [window_size |-> Some(DefaultWindowSize), buckets |-> BucketConfig_default]

(***************************************************************************)
(* HistogramData  (src/src/plots.rs).  The source (Arc<AtomicBucket>) is   *)
(* held outside the record and passed to update as the block it reads.     *)
(***************************************************************************)
HistogramData_new(config) ==
    [ring          |-> None,
     bucket_counts |-> Zeros(Len(config.buckets.bounds) + 1),
     config        |-> config]

\* a variant that clears the counts before it looks at the new bounds
update_bounds_from_input_clear_first(h) ==
    LET new_bounds == BucketConfig_get_bounds(h.config.buckets)
    IN  IF ~is_some(new_bounds) THEN [h EXCEPT !.bucket_counts = Zeros(Len(h.bucket_counts))]
        ELSE [h EXCEPT !.config.buckets.bounds = unwrap(new_bounds),
                       !.bucket_counts = Zeros(Len(unwrap(new_bounds)) + 1)]

\* a variant that clears the counts without resizing them
update_bounds_from_input_no_resize(h) ==
    LET new_bounds == BucketConfig_get_bounds(h.config.buckets)
    IN  IF ~is_some(new_bounds) THEN h
        ELSE [h EXCEPT !.config.buckets.bounds = unwrap(new_bounds),
                       !.bucket_counts = Zeros(Len(h.bucket_counts))]

update_bounds_from_input(h) ==
    LET new_bounds == BucketConfig_get_bounds(h.config.buckets)
    IN  IF ~is_some(new_bounds) THEN h
        ELSE [h EXCEPT !.config.buckets.bounds = unwrap(new_bounds),
                       !.bucket_counts = Zeros(Len(unwrap(new_bounds)) + 1)]

\* Ring::max_len is called by HistogramData::update and is not defined in
\* ring.rs; it is taken to be the ring's capacity, which there is size()
max_len(r) == Len(r.elements)

RECURSIVE push_all(_, _)
push_all(r, values) ==
    IF Len(values) = 0 THEN r
    ELSE push_all(push(r, Head(values)), Tail(values))

\* AtomicBucket::data_with visits the blocks newest first and the closure
\* reads each block with .iter().rev(): the values arrive newest first.
\* `block` is the content of the source in the order it was written.
data_newest_first(block) == Reverse(block)

\* a variant of update whose cumulative branch starts from cleared counts
HistogramData_update_recount(h, block) ==
    IF is_some(h.config.window_size)
    THEN LET window_size == unwrap(h.config.window_size)
             ring0 == IF is_some(h.ring) THEN unwrap(h.ring) ELSE RingNew(window_size)
             taken == Min(Len(block), max_len(ring0))
             ring1 == push_all(ring0, SubSeq(data_newest_first(block), 1, taken))
         IN  [h EXCEPT !.ring = Some(ring1),
                       !.bucket_counts =
                           add_values_to_buckets(h.config.buckets.bounds,
                               iter_chronological(ring1), Zeros(Len(h.bucket_counts)))]
    ELSE [h EXCEPT !.bucket_counts =
                       add_values_to_buckets(h.config.buckets.bounds, block,
                           Zeros(Len(h.bucket_counts)))]

\* a variant of update whose windowed branch keeps the counts of the
\* previous cycle and adds the ring's contents to them
HistogramData_update_carry_over(h, block) ==
    IF is_some(h.config.window_size)
    THEN LET window_size == unwrap(h.config.window_size)
             ring0 == IF is_some(h.ring) THEN unwrap(h.ring) ELSE RingNew(window_size)
             taken == Min(Len(block), max_len(ring0))
             ring1 == push_all(ring0, SubSeq(data_newest_first(block), 1, taken))
         IN  [h EXCEPT !.ring = Some(ring1),
                       !.bucket_counts =
                           add_values_to_buckets(h.config.buckets.bounds,
                               iter_chronological(ring1), h.bucket_counts)]
    ELSE [h EXCEPT !.bucket_counts =
                       add_values_to_buckets(h.config.buckets.bounds, block,
                           h.bucket_counts)]

HistogramData_update(h, block) ==
    IF is_some(h.config.window_size)
    THEN LET window_size == unwrap(h.config.window_size)
             ring0 == IF is_some(h.ring) THEN unwrap(h.ring) ELSE RingNew(window_size)
             taken == Min(Len(block), max_len(ring0))
             ring1 == push_all(ring0, SubSeq(data_newest_first(block), 1, taken))
         IN  [h EXCEPT !.ring = Some(ring1),
                       !.bucket_counts =
                           add_values_to_buckets(h.config.buckets.bounds,
                               iter_chronological(ring1), Zeros(Len(h.bucket_counts)))]
    ELSE [h EXCEPT !.bucket_counts =
                       add_values_to_buckets(h.config.buckets.bounds, block,
                           h.bucket_counts)]

(***************************************************************************)
(* HistogramData::configure_ui.  One call handles one frame of the plot's  *)
(* settings panel; ev says what the user did to each widget in that frame: *)
(*   n_buckets, min, max : None, or Some(v) for a DragValue set to v       *)
(*   toggle              : the "Sliding Window" checkbox was clicked       *)
(*   slider              : None, or Some(w) for the slider moved to w      *)
(***************************************************************************)
HistogramData_configure_ui(h, ev) ==
    LET ri0 == h.config.buckets.range_input
        ri1 == IF is_some(ev.n_buckets) THEN [ri0 EXCEPT !.n_buckets = unwrap(ev.n_buckets)] ELSE ri0
        ri2 == IF is_some(ev.min) THEN [ri1 EXCEPT !.min = unwrap(ev.min)] ELSE ri1
        ri3 == clamp_max(ri2)
        ri4 == IF is_some(ev.max) THEN [ri3 EXCEPT !.max = unwrap(ev.max)] ELSE ri3
        ri5 == clamp_min(ri4)
        update == is_some(ev.n_buckets) \/ is_some(ev.min) \/ is_some(ev.max)
        h1  == [h EXCEPT !.config.buckets.range_input = ri5]
        h2  == IF update THEN update_bounds_from_input(h1) ELSE h1
        use_sliding_window ==
            IF ev.toggle THEN ~is_some(h2.config.window_size)
            ELSE is_some(h2.config.window_size)
        h3  == IF ev.toggle /\ ~use_sliding_window
               THEN [h2 EXCEPT !.config.window_size = None,
                               !.ring = None,
                               !.bucket_counts = Zeros(Len(h2.bucket_counts))]
               ELSE h2
        h4  == IF use_sliding_window /\ ~is_some(h3.config.window_size)
               THEN [h3 EXCEPT !.config.window_size = Some(DefaultWindowSize)]
               ELSE h3
    IN  IF use_sliding_window /\ is_some(ev.slider)
                              /\ unwrap(ev.slider) # unwrap(h4.config.window_size)
        THEN [h4 EXCEPT !.config.window_size = ev.slider,
                        !.ring = Some(RingNew(unwrap(ev.slider)))]
        ELSE h4

(***************************************************************************)
(* The Last schedule  (src/src/dashboard_plugin.rs,                        *)
(* src/src/registry_plugin.rs).  Both plugins add one system to Last; the  *)
(* only ordering constraint is the .before(ClearBucketsSystem) of          *)
(* DashboardPlugin.  The executor may start a system of a schedule run     *)
(* once every system ordered before it has finished; systems that are not  *)
(* ordered and do not conflict on data may run in any order or overlap.    *)
(***************************************************************************)
LastSystems == {"update_plots_on_all_windows", "clear_atomic_buckets"}

\* the schedule without the .before(ClearBucketsSystem) constraint
LastOrdering_unordered == {}

LastOrdering == {<<"update_plots_on_all_windows", "clear_atomic_buckets">>}

MayStart(s, sys) ==
    /\ sys[s] = "waiting"
    /\ \A e \in LastOrdering : e[2] = s => sys[e[1]] = "done"

\* a variant of the clear step that leaves the sample block in place
clear_atomic_buckets_keep(source) == source

\* clear_atomic_buckets: h.clear() on the histogram's AtomicBucket
clear_atomic_buckets(source) == <<>>

\* the ids, and the values, of a sequence of sample records
IdsOf(samples) == [k \in 1..Len(samples) |-> samples[k].id]

ValuesOf(samples) == [k \in 1..Len(samples) |-> samples[k].value]

(***************************************************************************)
(* MetricsRegistry descriptions  (src/src/registry.rs).  The HashMap is a  *)
(* function from every DescriptionKey to an Option<MetricDescription>.     *)
(***************************************************************************)
DescKinds == {"Counter", "Gauge", "Histogram"}

DescNames == {"k"}

DescKeys == [name : DescNames, kind : DescKinds]

\* Option<Unit>
DescUnits == {None, Some("ms"), Some("s")}

DescTexts == {"a", "b"}

\* a variant that stores the description of every call (HashMap::insert)
add_description_if_missing_overwrite(descs, key, description) ==
    [descs EXCEPT ![key] = Some(description)]

\* descriptions.entry(key).or_insert(description), under the write lock
add_description_if_missing(descs, key, description) ==
    IF is_some(descs[key]) THEN descs
    ELSE [descs EXCEPT ![key] = Some(description)]

(***************************************************************************)
(* Counters of the registry  (src/src/registry.rs).  reg.counters maps a   *)
(* key to the storage cell the registry holds for it and reg.cells lists   *)
(* the values of the cells allocated so far (each an Arc<AtomicU64>); a    *)
(* cell is named by its index in reg.cells.                                *)
(***************************************************************************)
RegKeys == {"a", "b"}

\* Inner::new: Registry::atomic(), no metric registered
Registry_atomic ==
    [counters |-> [k \in RegKeys |-> None], cells |-> <<>>]

\* get_or_create_counter, first part: the lookup of the key, which other
\* threads' lookups may overlap
get_or_create_counter_lookup(r, key) == r.counters[key]

\* get_or_create_counter, second part, entered when the lookup found
\* nothing: under the registry's internal synchronization the cell is
\* created if it is still absent
get_or_create_counter_insert(r, key) ==
    IF is_some(r.counters[key])
    THEN [reg |-> r, cell |-> unwrap(r.counters[key])]
    ELSE [reg  |-> [counters |-> [r.counters EXCEPT ![key] = Some(Len(r.cells) + 1)],
                    cells    |-> Append(r.cells, 0)],
          cell |-> Len(r.cells) + 1]

\* a variant whose handle is a new cell holding a copy of the value
register_counter_copy(r, cell) ==
    [reg |-> [r EXCEPT !.cells = Append(@, r.cells[cell])], handle |-> Len(r.cells) + 1]

\* register_counter: the closure |c| c.clone().into() run on the cell that
\* get_or_create_counter found or created; the Counter shares the Arc
register_counter(r, cell) ==
    [reg |-> r, handle |-> cell]

\* Counter::increment(1) through a handle: one fetch_add on the cell
counter_increment(r, handle) ==
    [r EXCEPT !.cells[handle] = @ + 1]

(***************************************************************************)
(* Metric names  (src/src/namespace_tree.rs).  A name is the sequence of   *)
(* its characters; the model's names are made of ':' and one letter, and   *)
(* ':' sorts before the letter as it does before every ASCII letter.       *)
(***************************************************************************)
Chars == {":", "a"}

Names == UNION {[1..n -> Chars] : n \in 0..MaxNameLen}

DELIM == <<":", ":">>

\* the characters of the model's names and queries in ASCII order
CharOrder == <<":", "a", "b">>

CharRank(c) == CHOOSE i \in 1..Len(CharOrder) : CharOrder[i] = c

\* str::cmp
RECURSIVE StrLess(_, _)
StrLess(s, t) ==
    IF Len(t) = 0 THEN FALSE
    ELSE IF Len(s) = 0 THEN TRUE
    ELSE IF s[1] = t[1] THEN StrLess(Tail(s), Tail(t))
    ELSE CharRank(s[1]) < CharRank(t[1])

\* results.sort_unstable_by(name): the names of a set, ascending
RECURSIVE SortNames(_)
SortNames(S) ==
    IF S = {} THEN <<>>
    ELSE LET least == CHOOSE x \in S : \A y \in S \ {x} : StrLess(x, y)
         IN  <<least>> \o SortNames(S \ {least})

starts_with(s, p) == Len(p) <= Len(s) /\ SubSeq(s, 1, Len(p)) = p

ends_with(s, p) == Len(p) <= Len(s) /\ SubSeq(s, Len(s) - Len(p) + 1, Len(s)) = p

\* &s[start..]; the slice panics when start > s.len()
SliceFrom(s, start) == SubSeq(s, start + 1, Len(s))

\* the 0-based positions at which pat occurs in s
Occurrences(s, pat) ==
    {i \in 0..(Len(s) - Len(pat)) : SubSeq(s, i + 1, i + Len(pat)) = pat}

\* str::split_once: the text before and after the first occurrence
split_once(s, pat) ==
    IF Occurrences(s, pat) = {} THEN None
    ELSE LET i == CHOOSE j \in Occurrences(s, pat) : \A k \in Occurrences(s, pat) : j <= k
         IN  Some(<<SubSeq(s, 1, i), SubSeq(s, i + Len(pat) + 1, Len(s))>>)

\* str::rsplit_once: the text before and after the last occurrence
rsplit_once(s, pat) ==
    IF Occurrences(s, pat) = {} THEN None
    ELSE LET i == CHOOSE j \in Occurrences(s, pat) : \A k \in Occurrences(s, pat) : j >= k
         IN  Some(<<SubSeq(s, 1, i), SubSeq(s, i + Len(pat) + 1, Len(s))>>)

(***************************************************************************)
(* NamespaceNode  (src/src/namespace_tree.rs).  Both variants are records  *)
(* of one shape: a Namespace has no result and a Metric no children.  A    *)
(* SearchResult is stood for by the name of its key.  The builder returns  *)
(* [panicked, nodes]; panicked says that a slice or unwrap panicked.       *)
(***************************************************************************)
Namespace(display_path, children) ==
    [variant |-> "Namespace", display_path |-> display_path,
     children |-> children, result |-> <<>>]

Metric(display_path, result) ==
    [variant |-> "Metric", display_path |-> display_path,
     children |-> <<>>, result |-> result]

\* a variant that keeps a group of one child as a Namespace node
create_parent_node_no_collapse(group_name, children) ==
    IF Len(children) = 0 THEN None
    ELSE Some(Namespace(group_name, children))

create_parent_node(group_name, children) ==
    IF Len(children) = 0 THEN None
    ELSE IF Len(children) = 1
    THEN LET child == children[1]
         IN  IF child.variant = "Namespace"
             THEN Some(Namespace(group_name \o DELIM \o child.display_path, child.children))
             ELSE Some(Metric(group_name \o DELIM \o child.display_path, child.result))
    ELSE Some(Namespace(group_name, children))

\* results.iter().position(|r| !r.name()[path_start..].starts_with(group_name))
\* from index i on: [panicked, i], where i = results.len() stands for None
RECURSIVE group_position(_, _, _, _)
group_position(results, path_start, group_name, i) ==
    IF i >= Len(results) THEN [panicked |-> FALSE, i |-> Len(results)]
    ELSE IF path_start > Len(At(results, i)) THEN [panicked |-> TRUE, i |-> i]
    ELSE IF ~starts_with(SliceFrom(At(results, i), path_start), group_name)
    THEN [panicked |-> FALSE, i |-> i]
    ELSE group_position(results, path_start, group_name, i + 1)

\* one turn of the while loop on the first result, then the remaining turns
RECURSIVE tree_from_sorted_results_recursive(_, _)
tree_from_sorted_results_recursive(results, path_start) ==
    IF Len(results) = 0 THEN [panicked |-> FALSE, nodes |-> <<>>]
    ELSE IF path_start > Len(Head(results)) THEN [panicked |-> TRUE, nodes |-> <<>>]
    ELSE
    LET first_result == Head(results)
        first_path   == SliceFrom(first_result, path_start)
        split        == split_once(first_path, DELIM)
    IN  IF starts_with(first_path, <<":">>)
        THEN \* Skip invalid path.
             tree_from_sorted_results_recursive(Tail(results), path_start)
        ELSE IF is_some(split)
        THEN LET group_name == unwrap(split)[1]
                 group_end  == group_position(results, path_start, group_name, 0)
                 group      == SubSeq(results, 1, group_end.i)
                 rem        == SubSeq(results, group_end.i + 1, Len(results))
                 new_path_start == path_start + Len(group_name) + Len(DELIM)
                 children   == tree_from_sorted_results_recursive(group, new_path_start)
                 node       == create_parent_node(group_name, children.nodes)
                 rest       == tree_from_sorted_results_recursive(rem, path_start)
             IN  IF group_end.panicked \/ children.panicked \/ rest.panicked
                 THEN [panicked |-> TRUE, nodes |-> <<>>]
                 ELSE [panicked |-> FALSE, nodes |-> node \o rest.nodes]
        ELSE \* No delimiter. This result is a leaf.
             LET leaf_name == first_result
                 is_invalid_path == Len(leaf_name) = 0 \/ ends_with(leaf_name, <<":">>)
                 last_colon == rsplit_once(leaf_name, <<":">>)
                 display_path == IF is_some(last_colon) THEN unwrap(last_colon)[2]
                                 ELSE leaf_name
                 rest == tree_from_sorted_results_recursive(Tail(results), path_start)
             IN  IF rest.panicked THEN [panicked |-> TRUE, nodes |-> <<>>]
                 ELSE IF is_invalid_path THEN rest
                 ELSE [panicked |-> FALSE,
                       nodes |-> <<Metric(display_path, leaf_name)>> \o rest.nodes]

\* the results are the metrics of the registry, in the order of their names
tree_from_results(results) ==
    tree_from_sorted_results_recursive(SortNames(results), 0)

(***************************************************************************)
(* MetricsRegistry::fuzzy_search_by_name  (src/src/registry.rs).  The      *)
(* registry is the set of its MetricKeys, a Key being a name and labels,   *)
(* and the descriptions are a function from every DescriptionKey to an     *)
(* Option<MetricDescription>.                                              *)
(***************************************************************************)
SearchNames == {<<"a">>, <<"b", "a">>}

SearchKeys ==
    {[name |-> <<"a">>, labels |-> ""],
     [name |-> <<"a">>, labels |-> "l=1"],
     [name |-> <<"b", "a">>, labels |-> ""]}

MetricKeys == [key : SearchKeys, kind : DescKinds]

SearchDescKeys == [name : SearchNames, kind : DescKinds]

\* a variant that files every description under MetricKind::Counter
DescriptionKey_from_counter(value) == [name |-> value.key.name, kind |-> "Counter"]

\* impl From<&MetricKey> for DescriptionKey
DescriptionKey_from(value) == [name |-> value.key.name, kind |-> value.kind]

\* SkimMatcherV2::fuzzy_match(choice, pattern): a score when the pattern's
\* characters occur in the choice in order ("Empty input will match
\* everything"), else None.  The score itself is not used by the crate.
fuzzy_match(choice, pattern) ==
    IF IsSubseq(pattern, choice) THEN Some(0) ELSE None

\* the order in which a visit of the registry meets the keys of a set;
\* "Results are not returned in any particular order."
RECURSIVE VisitOrder(_)
VisitOrder(S) ==
    IF S = {} THEN <<>>
    ELSE LET x == CHOOSE y \in S : TRUE IN <<x>> \o VisitOrder(S \ {x})

\* one of visit_counters / visit_gauges / visit_histograms with its closure;
\* key_kind is the MetricKind the closure builds its MetricKey with
visit_matching(registry, descs, input, kind, key_kind) ==
    LET matching == VisitOrder({m \in registry :
                        m.kind = kind /\ is_some(fuzzy_match(m.key.name, input))})
    IN  [i \in 1..Len(matching) |->
            LET key == [key |-> matching[i].key, kind |-> key_kind]
            IN  [key |-> key, description |-> descs[DescriptionKey_from(key)]]]

\* a variant whose gauge closure builds its MetricKey with MetricKind::Counter
fuzzy_search_by_name_gauge_as_counter(registry, descs, input) ==
    visit_matching(registry, descs, input, "Counter", "Counter")
        \o visit_matching(registry, descs, input, "Gauge", "Counter")
        \o visit_matching(registry, descs, input, "Histogram", "Histogram")

fuzzy_search_by_name(registry, descs, input) ==
    visit_matching(registry, descs, input, "Counter", "Counter")
        \o visit_matching(registry, descs, input, "Gauge", "Gauge")
        \o visit_matching(registry, descs, input, "Histogram", "Histogram")

(***************************************************************************)
(* SearchBar  (src/src/search_bar.rs).  Instants are milliseconds since    *)
(* the bar was made.  A Task is named by its index in the list of tasks    *)
(* spawned so far; a task is "running" until its search has returned, then *)
(* "finished" until draw takes its output ("joined"), and "dropped" when   *)
(* its Task handle was overwritten before that.                            *)
(***************************************************************************)
QuietPeriodMs == 250

SearchBar_new(now) ==
    [search_input     |-> <<>>,
     input_dirty      |-> TRUE,
     last_search_time |-> now,
     search_task      |-> None,
     search_results   |-> <<>>]

\* search_results.sort_by(name): a stable sort
RECURSIVE sort_by_name(_)
sort_by_name(results) ==
    IF Len(results) = 0 THEN <<>>
    ELSE LET least == CHOOSE i \in 1..Len(results) :
                          \A j \in 1..Len(results) :
                              /\ ~StrLess(results[j].key.key.name, results[i].key.key.name)
                              /\ (j < i => results[j].key.key.name # results[i].key.key.name)
         IN  <<results[least]>> \o sort_by_name(
                 SubSeq(results, 1, least - 1) \o SubSeq(results, least + 1, Len(results)))

\* a variant that searches whenever the input is dirty
should_search_when_dirty(bar, now) == bar.input_dirty

\* self.input_dirty && self.last_search_time.elapsed() > 250 ms
should_search(bar, now) ==
    bar.input_dirty /\ now - bar.last_search_time > QuietPeriodMs

\* a variant of the poll that calls block_on without asking is_finished
poll_search_task_blocking(bar, tasks) ==
    IF is_some(bar.search_task)
    THEN [bar   |-> [bar EXCEPT !.search_results =
                              sort_by_name(tasks[unwrap(bar.search_task)].results),
                          !.search_task = None],
          tasks |-> [tasks EXCEPT ![unwrap(bar.search_task)].status = "joined"]]
    ELSE [bar |-> bar, tasks |-> tasks]

\* a variant of the poll that takes the task and does not put an
\* unfinished one back
poll_search_task_take(bar, tasks) ==
    IF is_some(bar.search_task) /\ tasks[unwrap(bar.search_task)].status = "finished"
    THEN [bar   |-> [bar EXCEPT !.search_results =
                              sort_by_name(tasks[unwrap(bar.search_task)].results),
                          !.search_task = None],
          tasks |-> [tasks EXCEPT ![unwrap(bar.search_task)].status = "joined"]]
    ELSE IF is_some(bar.search_task)
    THEN [bar   |-> [bar EXCEPT !.search_task = None],
          tasks |-> [tasks EXCEPT ![unwrap(bar.search_task)].status = "dropped"]]
    ELSE [bar |-> bar, tasks |-> tasks]

\* the poll of the search task: [bar, tasks]
poll_search_task(bar, tasks) ==
    IF is_some(bar.search_task) /\ tasks[unwrap(bar.search_task)].status = "finished"
    THEN [bar   |-> [bar EXCEPT !.search_results =
                              sort_by_name(tasks[unwrap(bar.search_task)].results),
                          !.search_task = None],
          tasks |-> [tasks EXCEPT ![unwrap(bar.search_task)].status = "joined"]]
    ELSE [bar |-> bar, tasks |-> tasks]

\* draw at instant now; typed is Some(text) when the TextEdit's response
\* is changed() and the input is now text, else None: [bar, tasks]
SearchBar_draw(bar, tasks, now, typed) ==
    LET edited == IF is_some(typed)
                  THEN [bar EXCEPT !.search_input = unwrap(typed), !.input_dirty = TRUE]
                  ELSE bar
        polled == poll_search_task(edited, tasks)
        kept   == IF is_some(polled.bar.search_task)
                  THEN [polled.tasks EXCEPT ![unwrap(polled.bar.search_task)].status = "dropped"]
                  ELSE polled.tasks
        task   == [input |-> polled.bar.search_input, status |-> "running", results |-> <<>>]
    IN  IF should_search(polled.bar, now)
        THEN [bar   |-> [polled.bar EXCEPT !.last_search_time = now,
                                           !.search_task = Some(Len(kept) + 1),
                                           !.input_dirty = FALSE],
              tasks |-> Append(kept, task)]
        ELSE polled

(***************************************************************************)
(* RegistryPlugin  (src/src/registry_plugin.rs).  A MetricsRegistry value  *)
(* is a clone of an Arc<Inner> and is named by its Inner: "caller" is the  *)
(* registry the caller made, "default1" and "default2" are the ones build  *)
(* makes in the first and the second app, "other" is a recorder some other *)
(* code installed.  An app is a record                                     *)
(*   resource : Option of its MetricsRegistry resource                     *)
(*   last     : the systems added to its Last schedule, in order           *)
(***************************************************************************)
RegistryPlugin_new == [registry |-> None]

RegistryPlugin_with_registry(registry) == [registry |-> Some(registry)]

App_new == [resource |-> None, last |-> <<>>]

\* metrics::set_global_recorder: an Err when a recorder is installed already
set_global_recorder(global, recorder) ==
    IF is_some(global) THEN [global |-> global, ok |-> FALSE]
    ELSE [global |-> Some(recorder), ok |-> TRUE]

\* a variant of build that calls .expect() on the result of
\* set_global_recorder
RegistryPlugin_build_expect(plugin, app, global, errors, fresh) ==
    LET registry == IF is_some(plugin.registry) THEN unwrap(plugin.registry) ELSE fresh
        set      == set_global_recorder(global, registry)
    IN  IF ~set.ok
        THEN [app |-> app, global |-> global, errors |-> errors, panicked |-> TRUE]
        ELSE [app      |-> [resource |-> Some(registry),
                            last     |-> Append(app.last, "clear_atomic_buckets")],
              global   |-> set.global,
              errors   |-> errors,
              panicked |-> FALSE]

\* a variant of build that installs the registry it was given and inserts
\* a registry of its own as the resource
RegistryPlugin_build_own_resource(plugin, app, global, errors, fresh) ==
    LET registry == IF is_some(plugin.registry) THEN unwrap(plugin.registry) ELSE fresh
        set      == set_global_recorder(global, registry)
    IN  [app      |-> [resource |-> Some(fresh),
                       last     |-> Append(app.last, "clear_atomic_buckets")],
         global   |-> set.global,
         errors   |-> IF ~is_some(plugin.registry) /\ ~set.ok THEN errors + 1 ELSE errors,
         panicked |-> FALSE]

\* Plugin::build; fresh names the registry MetricsRegistry::default() makes,
\* errors counts the error! lines logged: [app, global, errors, panicked]
RegistryPlugin_build(plugin, app, global, errors, fresh) ==
    LET registry == IF is_some(plugin.registry) THEN unwrap(plugin.registry) ELSE fresh
        set      == set_global_recorder(global, registry)
    IN  [app      |-> [resource |-> Some(registry),
                       last     |-> Append(app.last, "clear_atomic_buckets")],
         global   |-> set.global,
         errors   |-> IF ~is_some(plugin.registry) /\ ~set.ok THEN errors + 1 ELSE errors,
         panicked |-> FALSE]

(***************************************************************************)
(* The metrics of a MetricsRegistry  (src/src/registry.rs).  metrics maps  *)
(* a MetricKey to the storage cell the registry holds for it, named by its *)
(* index in cells; a cell is a record [kind, value, block], value being    *)
(* the AtomicU64 of a counter or gauge and block the samples of a          *)
(* histogram's AtomicBucket.  A handle is the index of its cell.           *)
(***************************************************************************)
MetricsRegistry_new ==
    [metrics      |-> [k \in DescKeys |-> None],
     cells        |-> <<>>,
     descriptions |-> [k \in DescKeys |-> None]]

\* register_counter / register_gauge / register_histogram: get_or_create
\* with the closure |c| c.clone().into(): [reg, handle]
Recorder_register(r, key) ==
    IF is_some(r.metrics[key])
    THEN [reg |-> r, handle |-> unwrap(r.metrics[key])]
    ELSE [reg    |-> [r EXCEPT !.metrics[key] = Some(Len(r.cells) + 1),
                               !.cells = Append(@, [kind |-> key.kind, value |-> 0,
                                                    block |-> <<>>])],
          handle |-> Len(r.cells) + 1]

\* Counter::increment(v), Gauge::set(v), Histogram::record(v) through a handle
handle_record(r, handle, v) ==
    IF r.cells[handle].kind = "Counter" THEN [r EXCEPT !.cells[handle].value = @ + v]
    ELSE IF r.cells[handle].kind = "Gauge" THEN [r EXCEPT !.cells[handle].value = v]
    ELSE [r EXCEPT !.cells[handle].block = Append(@, v)]

\* a variant of the clear step that calls Registry::clear, which drops
\* every metric of the registry; the cells live on through their handles
clear_registry_buckets_evict(r) ==
    [r EXCEPT !.metrics = [k \in DescKeys |-> None]]

\* clear_atomic_buckets on the registry resource:
\* registry.visit_histograms(|_, h| h.clear())
clear_registry_buckets(r) ==
    [r EXCEPT !.cells = [i \in 1..Len(r.cells) |->
        IF r.cells[i].kind = "Histogram"
        THEN [r.cells[i] EXCEPT !.block = clear_atomic_buckets(@)]
        ELSE r.cells[i]]]

(***************************************************************************)
(* MetricPlot and DashboardWindow  (src/src/plots.rs,                      *)
(* src/src/dashboard_window.rs).  A MetricPlotConfig is a record           *)
(* [kind, config]; a plot is a record [name, key, kind, data], data being  *)
(* a CounterData [ring, config] or a HistogramData.  GaugeData keeps its   *)
(* ring and window size exactly as CounterData does and is modelled by it  *)
(* (the smoother is left out).  Window sizes are scaled as in              *)
(* DefaultWindowSize: the slider's range 100..=5000 is 1..MaxWindow.       *)
(***************************************************************************)
WindowSizes == 1..MaxWindow

DashKeys ==
    {[key |-> [name |-> <<"a">>, labels |-> ""],    kind |-> "Counter"],
     [key |-> [name |-> <<"a">>, labels |-> "l=1"], kind |-> "Counter"],
     [key |-> [name |-> <<"a">>, labels |-> ""],    kind |-> "Gauge"],
     [key |-> [name |-> <<"a">>, labels |-> ""],    kind |-> "Histogram"]}

metric_kind_str(kind) ==
    IF kind = "Counter" THEN <<"c", "o", "u", "n", "t", "e", "r">>
    ELSE IF kind = "Gauge" THEN <<"g", "a", "u", "g", "e">>
    ELSE <<"h", "i", "s", "t", "o", "g", "r", "a", "m">>

\* MetricKey::default_title; add_plot calls key.title(None, n_duplicates),
\* which with no display path is taken to be this title
default_title(key, n_duplicates) ==
    IF n_duplicates > 0
    THEN key.key.name \o <<" ", "(">> \o metric_kind_str(key.kind)
             \o <<")", " ", ToString(n_duplicates)>>
    ELSE key.key.name \o <<" ", "(">> \o metric_kind_str(key.kind) \o <<")">>

CounterPlotConfig_default == [window_size |-> DefaultWindowSize, derivative |-> FALSE]

MetricPlotConfig_default_for_kind(kind) ==
    [kind   |-> kind,
     config |-> IF kind = "Histogram" THEN HistogramPlotConfig_default
                ELSE CounterPlotConfig_default]

CounterData_new(config) ==
    [ring |-> RingNew(config.window_size), config |-> config]

\* Ring::set_max_len is called by CounterData and GaugeData and is not
\* defined in ring.rs; it is taken to be resize, which sets size()
set_max_len(r, new_len) == resize(r, new_len)

\* handle_global_config: [data, panicked]
CounterData_handle_global_config(data, dash_config) ==
    IF is_some(dash_config.global_window_size)
    THEN LET window_size == unwrap(dash_config.global_window_size)
         IN  IF ResizePanics(data.ring, window_size)
             THEN [data |-> data, panicked |-> TRUE]
             ELSE [data     |-> [ring   |-> set_max_len(data.ring, window_size),
                                 config |-> [data.config EXCEPT !.window_size = window_size]],
                   panicked |-> FALSE]
    ELSE [data |-> data, panicked |-> FALSE]

\* configure_ui; slider is None, or Some(w) for the slider moved to w:
\* [data, panicked]
CounterData_configure_ui(data, enable_window_size, slider) ==
    IF enable_window_size /\ is_some(slider) /\ unwrap(slider) # data.config.window_size
    THEN IF ResizePanics(data.ring, unwrap(slider))
         THEN [data |-> data, panicked |-> TRUE]
         ELSE [data     |-> [ring   |-> set_max_len(data.ring, unwrap(slider)),
                             config |-> [data.config EXCEPT !.window_size = unwrap(slider)]],
               panicked |-> FALSE]
    ELSE [data |-> data, panicked |-> FALSE]

MetricPlot_new(name, key, config) ==
    [name |-> name,
     key  |-> key,
     kind |-> config.kind,
     data |-> IF config.kind = "Histogram" THEN HistogramData_new(config.config)
              ELSE CounterData_new(config.config)]

clone_config(plot) == [kind |-> plot.kind, config |-> plot.data.config]

\* draw_plot for one frame of the plot; slider is what the user did to the
\* plot's window size slider: [plot, panicked]
draw_plot(dash_config, plot, slider) ==
    IF plot.kind = "Histogram"
    THEN [plot     |-> [plot EXCEPT !.data =
                          HistogramData_configure_ui(@,
                              [n_buckets |-> None, min |-> None, max |-> None,
                               toggle |-> FALSE, slider |-> slider])],
          panicked |-> FALSE]
    ELSE LET linked == CounterData_handle_global_config(plot.data, dash_config)
             drawn  == CounterData_configure_ui(linked.data,
                           ~is_some(dash_config.global_window_size), slider)
         IN  [plot     |-> [plot EXCEPT !.data = drawn.data],
              panicked |-> linked.panicked \/ drawn.panicked]

DashboardWindow_new ==
    [plots |-> <<>>, config |-> [global_window_size |-> None, paused |-> FALSE]]

\* a variant that does not look into the cache
add_plot_default_config(window, cached_configs, key) ==
    LET n_duplicates == Cardinality({i \in 1..Len(window.plots) : window.plots[i].key = key})
        plot_config  == MetricPlotConfig_default_for_kind(key.kind)
    IN  [window EXCEPT !.plots =
            Append(@, MetricPlot_new(default_title(key, n_duplicates), key, plot_config))]

\* add_plot, with the CachedPlotConfigs as a function from keys to Options
add_plot(window, cached_configs, key) ==
    LET n_duplicates == Cardinality({i \in 1..Len(window.plots) : window.plots[i].key = key})
        plot_config  == IF is_some(cached_configs[key]) THEN unwrap(cached_configs[key])
                        ELSE MetricPlotConfig_default_for_kind(key.kind)
    IN  [window EXCEPT !.plots =
            Append(@, MetricPlot_new(default_title(key, n_duplicates), key, plot_config))]

\* DashboardWindow::configure_ui; ev says what the user did:
\*   pause, link : the checkbox was clicked
\*   slider      : None, or Some(w) for the slider moved to w
DashboardWindow_configure_ui(window, ev) ==
    LET paused == IF ev.pause THEN ~window.config.paused ELSE window.config.paused
        lock_window_size ==
            IF ev.link THEN ~is_some(window.config.global_window_size)
            ELSE is_some(window.config.global_window_size)
        window_size ==
            IF ~lock_window_size THEN None
            ELSE IF is_some(ev.slider) THEN ev.slider
            ELSE IF is_some(window.config.global_window_size)
            THEN window.config.global_window_size
            ELSE Some(DefaultWindowSize)
    IN  [window EXCEPT !.config = [global_window_size |-> window_size, paused |-> paused]]

\* the elements of s whose index is not in removed
RECURSIVE remove_all(_, _)
remove_all(s, removed) ==
    IF Len(s) = 0 THEN <<>>
    ELSE remove_all(SubSeq(s, 1, Len(s) - 1), removed)
             \o (IF Len(s) \in removed THEN <<>> ELSE <<s[Len(s)]>>)

\* a variant that lists the clicked indices from the first plot to the last
RECURSIVE remove_plots_in_forward_order(_)
remove_plots_in_forward_order(removed) ==
    IF removed = {} THEN <<>>
    ELSE LET i == CHOOSE m \in removed : \A n \in removed : m <= n
         IN  <<i>> \o remove_plots_in_forward_order(removed \ {i})

\* the loop over self.plots.iter_mut().enumerate().rev() pushes the index
\* of every plot whose "Remove" button was clicked: the clicked indices,
\* the largest first
RECURSIVE remove_plots_in_draw_order(_)
remove_plots_in_draw_order(removed) ==
    IF removed = {} THEN <<>>
    ELSE LET i == CHOOSE m \in removed : \A n \in removed : n <= m
         IN  <<i>> \o remove_plots_in_draw_order(removed \ {i})

\* Vec::remove(i), with indices from 1; it panics when i is out of range
Vec_remove(s, i) == SubSeq(s, 1, i - 1) \o SubSeq(s, i + 1, Len(s))

\* for i in remove_plots: self.plots.remove(i), then the removed plot's
\* config is cached under its key: [plots, cached_configs, panicked]
RECURSIVE remove_and_cache(_, _, _)
remove_and_cache(plots, cached_configs, remove_plots) ==
    IF Len(remove_plots) = 0
    THEN [plots |-> plots, cached_configs |-> cached_configs, panicked |-> FALSE]
    ELSE IF Head(remove_plots) > Len(plots)
    THEN [plots |-> plots, cached_configs |-> cached_configs, panicked |-> TRUE]
    ELSE remove_and_cache(
             Vec_remove(plots, Head(remove_plots)),
             [cached_configs EXCEPT ![plots[Head(remove_plots)].key] =
                 Some(clone_config(plots[Head(remove_plots)]))],
             Tail(remove_plots))

\* the first loop of draw_plots: every plot is drawn; drag is None or
\* Some([i, w]) for the slider of plot i moved to w: a list of [plot, panicked]
draw_each_plot(window, drag) ==
    [i \in 1..Len(window.plots) |->
        draw_plot(window.config, window.plots[i],
            IF is_some(drag) /\ unwrap(drag).i = i
            THEN Some(unwrap(drag).w) ELSE None)]

\* the second loop of draw_plots on the plots as drawn
remove_drawn_plots(window, cached_configs, plots, remove_plots) ==
    [window           |-> [window EXCEPT !.plots =
                              remove_and_cache(plots, cached_configs, remove_plots).plots],
     cached_configs   |-> remove_and_cache(plots, cached_configs, remove_plots).cached_configs,
     panicked         |-> remove_and_cache(plots, cached_configs, remove_plots).panicked,
     drawn            |-> plots,
     removal_panicked |-> remove_and_cache(plots, cached_configs, remove_plots).panicked]

\* draw_plots; removed are the plots whose "Remove" button was clicked:
\* [window, cached_configs, panicked, drawn, removal_panicked], where drawn
\* are the plots after the first loop and removal_panicked says that a
\* self.plots.remove(i) was out of range
draw_plots(window, cached_configs, removed, drag) ==
    IF \E i \in 1..Len(window.plots) : draw_each_plot(window, drag)[i].panicked
    THEN [window |-> window, cached_configs |-> cached_configs, panicked |-> TRUE,
          drawn |-> window.plots, removal_panicked |-> FALSE]
    ELSE remove_drawn_plots(window, cached_configs,
             [i \in 1..Len(window.plots) |-> draw_each_plot(window, drag)[i].plot],
             remove_plots_in_draw_order(removed))

(***************************************************************************)
(* NamespaceTreeWindow  (src/src/namespace_tree.rs).  Instants are         *)
(* milliseconds since the window was made.  A refresh Task is named by its *)
(* index in the list of tasks spawned so far, with the statuses of the     *)
(* search tasks: "running", "finished", "joined" and "dropped".            *)
(***************************************************************************)
RefreshPeriodMs == 5000

NamespaceTreeWindow_new(now) ==
    [refresh_period    |-> RefreshPeriodMs,
     is_new            |-> TRUE,
     last_refresh_time |-> now,
     refresh_task      |-> None,
     roots             |-> <<>>]

\* draw at instant now: [window, tasks]
NamespaceTreeWindow_draw(window, tasks, now) ==
    LET refresh == window.is_new \/ now - window.last_refresh_time > window.refresh_period
        \* self.refresh_task = Some(spawn(..)) drops the Task it held
        kept    == IF refresh /\ is_some(window.refresh_task)
                   THEN [tasks EXCEPT ![unwrap(window.refresh_task)].status = "dropped"]
                   ELSE tasks
        spawned == IF refresh
                   THEN [window |-> [window EXCEPT !.is_new = FALSE,
                                                   !.refresh_task = Some(Len(kept) + 1),
                                                   !.last_refresh_time = now],
                         tasks  |-> Append(kept, [status |-> "running", results |-> <<>>])]
                   ELSE [window |-> window, tasks |-> tasks]
        task    == spawned.window.refresh_task
    IN  \* futures::check_ready polls the task once
        IF is_some(task) /\ spawned.tasks[unwrap(task)].status = "finished"
        THEN [window |-> [spawned.window EXCEPT !.roots = spawned.tasks[unwrap(task)].results,
                                                !.refresh_task = None],
              tasks  |-> [spawned.tasks EXCEPT ![unwrap(task)].status = "joined"]]
        ELSE spawned

(***************************************************************************)
(* Initial states.  Every specification starts its own variables in its    *)
(* Init... predicate and holds the others at their ...Idle value.          *)
(***************************************************************************)
InitRingIdle ==
    /\ ring = RingNew(1)
    /\ ringPushed = 0
    /\ ringResizes = 0
    /\ ringLog = <<>>
    /\ ringPanicked = FALSE

InitRing ==
    /\ \E n \in 1..MaxSize : ring = RingNew(n)
    /\ ringPushed = 0
    /\ ringResizes = 0
    /\ ringLog = <<>>
    /\ ringPanicked = FALSE

\* the strictly ascending boundary lists over 0..MaxBoundary
AscendingBounds ==
    {b \in UNION {[1..n -> 0..MaxBoundary] : n \in 1..MaxBounds} :
        \A i \in 1..(Len(b) - 1) : b[i] < b[i + 1]}

\* values below, on, between and above the boundaries
BucketValues == (0 - 1)..(MaxBoundary + 1)

InitBucketIdle ==
    /\ bkBounds = <<0>>
    /\ bkCounts = <<0, 0>>
    /\ bkLast = <<>>

InitBucket ==
    /\ bkBounds \in AscendingBounds
    /\ bkCounts = Zeros(Len(bkBounds) + 1)
    /\ bkLast = <<>>

\* a histogram plot is created by MetricPlot::new from the default
\* configuration or from a cached one, which may have the window disabled
InitialHistogramConfigs ==
    {HistogramPlotConfig_default,
     [HistogramPlotConfig_default EXCEPT !.window_size = None]}

\* the values producers record
SampleValues == {k * ValueUnit + 1 : k \in 0..2}

InitHistIdle ==
    /\ hist = HistogramData_new(HistogramPlotConfig_default)
    /\ hSource = <<>>
    /\ hRecorded = <<>>
    /\ hPhase = "frame"
    /\ hLog = <<>>
    /\ hUiEvents = 0

InitHist ==
    /\ \E config \in InitialHistogramConfigs : hist = HistogramData_new(config)
    /\ hSource = <<>>
    /\ hRecorded = <<>>
    /\ hPhase = "frame"
    /\ hLog = <<>>
    /\ hUiEvents = 0

\* one dashboard window with two cumulative histogram plots and one with a
\* windowed histogram plot, all of the same metric
InitialWindows ==
    LET cumulative ==
            HistogramData_new([HistogramPlotConfig_default EXCEPT !.window_size = None])
        windowed == HistogramData_new(HistogramPlotConfig_default)
    IN  << [paused |-> FALSE, plots |-> <<cumulative, cumulative>>],
           [paused |-> FALSE, plots |-> <<windowed>>] >>

PlotKeys ==
    {<<w, i>> \in (1..Len(InitialWindows)) \X (1..2) : i <= Len(InitialWindows[w].plots)}

\* the values producers record in SpecCycle
CycleSampleValues == {1, ValueUnit + 1}

InitCycleIdle ==
    /\ cWindows = InitialWindows
    /\ cSource = <<>>
    /\ cRecordedN = 0
    /\ cCleared = <<>>
    /\ cFolded = [p \in PlotKeys |-> <<>>]
    /\ cPhase = "frame"
    /\ cSys = [s \in LastSystems |-> "waiting"]
    /\ cPos = [w |-> 1, i |-> 1]
    /\ cUpdated = {}
    /\ cClearRuns = 0
    /\ cCycle = 0
    /\ cToggles = 0

InitCycle == InitCycleIdle

IdleThread ==
    [pc |-> "idle",
     key |-> [name |-> "k", kind |-> "Counter"],
     description |-> [unit |-> None, text |-> "a"]]

InitDescribeIdle ==
    /\ descriptions = [k \in DescKeys |-> None]
    /\ dLock = 0
    /\ dThreads = [t \in 1..NThreads |-> IdleThread]
    /\ dFirst = [k \in DescKeys |-> None]
    /\ dLast = [k \in DescKeys |-> None]
    /\ dCalls = 0

InitDescribe == InitDescribeIdle

IdleRegThread ==
    [pc |-> "idle", key |-> "a", handle |-> None, created |-> FALSE, incs |-> 0]

InitRegisterIdle ==
    /\ reg = Registry_atomic
    /\ regThreads = [t \in 1..NThreads |-> IdleRegThread]
    /\ regIncs = [k \in RegKeys |-> 0]

\* NamespaceTreeWindow::new: roots: Default::default()
InitTreeIdle ==
    /\ treeNames = {}
    /\ treeRoots = [panicked |-> FALSE, nodes |-> <<>>]
    /\ treeBuilt = None

\* MetricsRegistry::new and SearchBar::new
InitSearchIdle ==
    /\ sbRegistry = {}
    /\ sbDescriptions = [k \in SearchDescKeys |-> None]
    /\ sb = SearchBar_new(0)
    /\ sbTasks = <<>>
    /\ sbNow = 0
    /\ sbFrames = 0
    /\ sbLog = None
    /\ sbEdits = 0

\* the configurations a caller of MetricPlot::new may build: the fields of
\* HistogramPlotConfig and BucketConfig are public, so bounds may be any
\* list, here also an empty and a descending one
CallerBuiltConfigs ==
    InitialHistogramConfigs
        \cup {[window_size |-> w,
               buckets |-> [bounds |-> b, range_input |-> BucketRange_default]] :
                 w \in {None, Some(DefaultWindowSize)},
                 b \in {<<>>, <<2 * ValueUnit, 0>>}}

InitHistCaller ==
    /\ \E config \in CallerBuiltConfigs : hist = HistogramData_new(config)
    /\ hSource = <<>>
    /\ hRecorded = <<>>
    /\ hPhase = "frame"
    /\ hLog = <<>>
    /\ hUiEvents = 0

\* no recorder installed, two apps without plugins, an empty registry
InitPluginIdle ==
    /\ plGlobal = None
    /\ plApp = <<App_new, App_new>>
    /\ plErrors = 0
    /\ plLog = <<None, None>>
    /\ plReg = MetricsRegistry_new
    /\ plHandles = {}
    /\ plOps = 0
    /\ plClears = 0
    /\ plDiscarded = 0

\* DashboardWindow::new and an empty CachedPlotConfigs
InitDashIdle ==
    /\ dashWindow = DashboardWindow_new
    /\ dashCached = [k \in DashKeys |-> None]
    /\ dashOps = 0
    /\ dashLast = "new"
    /\ dashPanicked = FALSE
    /\ dashLog = None
    /\ dashRemovedConfig = [k \in DashKeys |-> None]
    /\ dashInserted = [k \in DashKeys |-> FALSE]

\* NamespaceTreeWindow::new over an empty registry
InitTwIdle ==
    /\ tw = NamespaceTreeWindow_new(0)
    /\ twTasks = <<>>
    /\ twNow = 0
    /\ twFrames = 0
    /\ twNames = {}

\* a registry of two metrics and a new search bar
InitSearchTasks ==
    /\ sbRegistry = {[key |-> [name |-> <<"a">>, labels |-> ""], kind |-> "Counter"],
                     [key |-> [name |-> <<"b", "a">>, labels |-> ""], kind |-> "Gauge"]}
    /\ sbDescriptions = [k \in SearchDescKeys |-> None]
    /\ sb = SearchBar_new(0)
    /\ sbTasks = <<>>
    /\ sbNow = 0
    /\ sbFrames = 0
    /\ sbLog = None
    /\ sbEdits = 0

InitSpecRing ==
    InitRing /\ InitBucketIdle /\ InitHistIdle /\ InitCycleIdle /\ InitDescribeIdle /\ InitRegisterIdle /\ InitTreeIdle /\ InitSearchIdle /\ InitPluginIdle /\ InitDashIdle /\ InitTwIdle

InitSpecBucket ==
    InitRingIdle /\ InitBucket /\ InitHistIdle /\ InitCycleIdle /\ InitDescribeIdle /\ InitRegisterIdle /\ InitTreeIdle /\ InitSearchIdle /\ InitPluginIdle /\ InitDashIdle /\ InitTwIdle

InitSpecHist ==
    InitRingIdle /\ InitBucketIdle /\ InitHist /\ InitCycleIdle /\ InitDescribeIdle /\ InitRegisterIdle /\ InitTreeIdle /\ InitSearchIdle /\ InitPluginIdle /\ InitDashIdle /\ InitTwIdle

InitSpecCycle ==
    InitRingIdle /\ InitBucketIdle /\ InitHistIdle /\ InitCycle /\ InitDescribeIdle /\ InitRegisterIdle /\ InitTreeIdle /\ InitSearchIdle /\ InitPluginIdle /\ InitDashIdle /\ InitTwIdle

InitSpecDescribe ==
    InitRingIdle /\ InitBucketIdle /\ InitHistIdle /\ InitCycleIdle /\ InitDescribe /\ InitRegisterIdle /\ InitTreeIdle /\ InitSearchIdle /\ InitPluginIdle /\ InitDashIdle /\ InitTwIdle

InitSpecRegister ==
    InitRingIdle /\ InitBucketIdle /\ InitHistIdle /\ InitCycleIdle /\ InitDescribeIdle /\ InitRegisterIdle /\ InitTreeIdle /\ InitSearchIdle /\ InitPluginIdle /\ InitDashIdle /\ InitTwIdle

InitSpecTree ==
    InitRingIdle /\ InitBucketIdle /\ InitHistIdle /\ InitCycleIdle /\ InitDescribeIdle /\ InitRegisterIdle /\ InitTreeIdle /\ InitSearchIdle /\ InitPluginIdle /\ InitDashIdle /\ InitTwIdle

InitSpecSearch ==
    InitRingIdle /\ InitBucketIdle /\ InitHistIdle /\ InitCycleIdle /\ InitDescribeIdle /\ InitRegisterIdle /\ InitTreeIdle /\ InitSearchIdle /\ InitPluginIdle /\ InitDashIdle /\ InitTwIdle

InitSpecHistCaller ==
    InitRingIdle /\ InitBucketIdle /\ InitHistCaller /\ InitCycleIdle /\ InitDescribeIdle /\ InitRegisterIdle /\ InitTreeIdle /\ InitSearchIdle /\ InitPluginIdle /\ InitDashIdle /\ InitTwIdle

InitSpecPlugin ==
    InitRingIdle /\ InitBucketIdle /\ InitHistIdle /\ InitCycleIdle /\ InitDescribeIdle /\ InitRegisterIdle /\ InitTreeIdle /\ InitSearchIdle /\ InitPluginIdle /\ InitDashIdle /\ InitTwIdle

InitSpecDash ==
    InitRingIdle /\ InitBucketIdle /\ InitHistIdle /\ InitCycleIdle /\ InitDescribeIdle /\ InitRegisterIdle /\ InitTreeIdle /\ InitSearchIdle /\ InitPluginIdle /\ InitDashIdle /\ InitTwIdle

InitSpecTasks ==
    InitRingIdle /\ InitBucketIdle /\ InitHistIdle /\ InitCycleIdle /\ InitDescribeIdle /\ InitRegisterIdle /\ InitTreeIdle /\ InitSearchTasks /\ InitPluginIdle /\ InitDashIdle /\ InitTwIdle

(***************************************************************************)
(* SpecRing: a ring is constructed, then pushed to and resized.            *)
(* Pushed values are the push's ordinal 1, 2, 3, ... : Ring<T> never       *)
(* inspects a T, so distinct stamps lose no behaviour and make every       *)
(* element traceable.  ringLog keeps the last two operations with the      *)
(* ring as it was before each.                                             *)
(***************************************************************************)
LogAppend(log, entry) ==
    IF Len(log) < 2 THEN Append(log, entry) ELSE <<log[2], entry>>

RingPush ==
    /\ ~ringPanicked
    /\ ringPushed < MaxPush
    /\ ~PushPanics(ring)
    /\ ring' = push(ring, ringPushed + 1)
    /\ ringPushed' = ringPushed + 1
    /\ ringLog' = LogAppend(ringLog, [op |-> "push", arg |-> ringPushed + 1, pre |-> ring])
    /\ UNCHANGED <<ringResizes, ringPanicked>>
    /\ UNCHANGED ringOthers

RingPushPanic ==
    /\ ~ringPanicked
    /\ ringPushed < MaxPush
    /\ PushPanics(ring)
    /\ ringPanicked' = TRUE
    /\ UNCHANGED <<ring, ringPushed, ringResizes, ringLog>>
    /\ UNCHANGED ringOthers

RingResize ==
    /\ ~ringPanicked
    /\ ringResizes < MaxResizes
    /\ \E new_size \in 0..MaxSize :
          /\ ~ResizePanics(ring, new_size)
          /\ ring' = resize(ring, new_size)
          /\ ringLog' = LogAppend(ringLog, [op |-> "resize", arg |-> new_size, pre |-> ring])
    /\ ringResizes' = ringResizes + 1
    /\ UNCHANGED <<ringPushed, ringPanicked>>
    /\ UNCHANGED ringOthers

RingResizePanic ==
    /\ ~ringPanicked
    /\ ringResizes < MaxResizes
    /\ \E new_size \in 0..MaxSize : ResizePanics(ring, new_size)
    /\ ringPanicked' = TRUE
    /\ UNCHANGED <<ring, ringPushed, ringResizes, ringLog>>
    /\ UNCHANGED ringOthers

NextRing ==
    \/ RingPush
    \/ RingPushPanic
    \/ RingResize
    \/ RingResizePanic


(***************************************************************************)
(* SpecBucket: add_value_to_bucket applied to every strictly ascending     *)
(* boundary list and every value of the bounded domains.                   *)
(***************************************************************************)
BucketAddValue ==
    /\ SumSeq(bkCounts) < MaxAdds
    /\ \E value \in BucketValues :
          /\ bkCounts' = add_value_to_bucket(bkBounds, value, bkCounts)
          /\ bkLast' = <<[value |-> value, pre |-> bkCounts]>>
    /\ UNCHANGED bkBounds
    /\ UNCHANGED bkOthers

NextBucket == BucketAddValue

(***************************************************************************)
(* SpecHist: one histogram plot over the cycles of the app.  In a frame    *)
(* producers record samples and the settings panel is drawn; then the Last *)
(* schedule runs the plot's update and, after it, clear_atomic_buckets.    *)
(* hLog holds the last operation with the plot, the plot and the block     *)
(* before it and, for configure_ui, what the user did.                     *)
(***************************************************************************)
NoUiEvent ==
    [n_buckets |-> None, min |-> None, max |-> None, toggle |-> FALSE, slider |-> None]

\* the user changes one widget per frame
UiEvents ==
    {[NoUiEvent EXCEPT !.n_buckets = Some(n)] : n \in 0..MaxBuckets}
        \cup {[NoUiEvent EXCEPT !.min = Some(k * ValueUnit)] : k \in 0..1}
        \cup {[NoUiEvent EXCEPT !.max = Some(k * ValueUnit)] : k \in 1..2}
        \cup {[NoUiEvent EXCEPT !.toggle = TRUE]}
        \cup {[NoUiEvent EXCEPT !.slider = Some(w)] : w \in 1..MaxWindow}

\* Histogram::record -> AtomicBucket::push
HistRecord ==
    /\ hPhase = "frame"
    /\ Len(hRecorded) < MaxSamples
    /\ \E value \in SampleValues :
          /\ hSource' = Append(hSource, value)
          /\ hRecorded' = Append(hRecorded, value)
    /\ hLog' = <<[op |-> "record", pre |-> hist, block |-> hSource, ev |-> NoUiEvent]>>
    /\ UNCHANGED <<hist, hPhase, hUiEvents>>
    /\ UNCHANGED histOthers

HistConfigureUi ==
    /\ hPhase = "frame"
    /\ hUiEvents < MaxUiEvents
    /\ \E ev \in UiEvents :
          /\ hist' = HistogramData_configure_ui(hist, ev)
          /\ hLog' = <<[op |-> "configure_ui", pre |-> hist, block |-> hSource, ev |-> ev]>>
    /\ hUiEvents' = hUiEvents + 1
    /\ UNCHANGED <<hSource, hRecorded, hPhase>>
    /\ UNCHANGED histOthers

HistUpdate ==
    /\ hPhase = "frame"
    /\ hist' = HistogramData_update(hist, hSource)
    /\ hPhase' = "updated"
    /\ hLog' = <<[op |-> "update", pre |-> hist, block |-> hSource, ev |-> NoUiEvent]>>
    /\ UNCHANGED <<hSource, hRecorded, hUiEvents>>
    /\ UNCHANGED histOthers

HistClear ==
    /\ hPhase = "updated"
    /\ hSource' = <<>>
    /\ hPhase' = "frame"
    /\ hLog' = <<[op |-> "clear", pre |-> hist, block |-> hSource, ev |-> NoUiEvent]>>
    /\ UNCHANGED <<hist, hRecorded, hUiEvents>>
    /\ UNCHANGED histOthers

NextHist ==
    \/ HistRecord
    \/ HistConfigureUi
    \/ HistUpdate
    \/ HistClear

(***************************************************************************)
(* SpecCycle: the frames of the app.  In a frame the user may click a      *)
(* window's "Pause" checkbox; then the Last schedule runs its systems.     *)
(* Producer threads record samples at any time.  A sample is a record      *)
(*   id     : its ordinal                                                  *)
(*   value  : the recorded value                                           *)
(*   late   : it was recorded while the Last schedule was running          *)
(*   paused : the windows that were paused at some time since              *)
(* cFolded[p] lists the samples plot p read in its updates and cCleared    *)
(* the samples the clear step discarded.                                   *)
(***************************************************************************)
\* Histogram::record from any thread
CycleRecord ==
    /\ cRecordedN < MaxCycleSamples
    /\ \E value \in CycleSampleValues :
          cSource' = Append(cSource,
              [id     |-> cRecordedN + 1,
               value  |-> value,
               late   |-> (cPhase = "last"),
               paused |-> {w \in 1..Len(cWindows) : cWindows[w].paused}])
    /\ cRecordedN' = cRecordedN + 1
    /\ UNCHANGED <<cWindows, cCleared, cFolded, cPhase, cSys, cPos, cUpdated,
                   cClearRuns, cCycle, cToggles>>
    /\ UNCHANGED cycleOthers

\* DashboardWindow::configure_ui: ui.checkbox(&mut self.config.paused, "Pause")
CycleTogglePause ==
    /\ cPhase = "frame"
    /\ cToggles < MaxToggles
    /\ \E w \in 1..Len(cWindows) :
          /\ cWindows' = [cWindows EXCEPT ![w].paused = ~@]
          /\ cSource' = [k \in 1..Len(cSource) |->
                            IF cWindows[w].paused THEN cSource[k]
                            ELSE [cSource[k] EXCEPT !.paused = @ \cup {w}]]
    /\ cToggles' = cToggles + 1
    /\ UNCHANGED <<cRecordedN, cCleared, cFolded, cPhase, cSys, cPos, cUpdated,
                   cClearRuns, cCycle>>
    /\ UNCHANGED cycleOthers

\* the app reaches the Last schedule of the frame
CycleEnterLast ==
    /\ cPhase = "frame"
    /\ cCycle < MaxCycles
    /\ cPhase' = "last"
    /\ cSys' = [s \in LastSystems |-> "waiting"]
    /\ cPos' = [w |-> 1, i |-> 1]
    /\ cUpdated' = {}
    /\ cClearRuns' = 0
    /\ UNCHANGED <<cWindows, cSource, cRecordedN, cCleared, cFolded, cCycle, cToggles>>
    /\ UNCHANGED cycleOthers

\* the executor starts update_plots_on_all_windows
CycleUpdateStart ==
    /\ cPhase = "last"
    /\ MayStart("update_plots_on_all_windows", cSys)
    /\ cSys' = [cSys EXCEPT !["update_plots_on_all_windows"] = "running"]
    /\ UNCHANGED <<cWindows, cSource, cRecordedN, cCleared, cFolded, cPhase, cPos,
                   cUpdated, cClearRuns, cCycle, cToggles>>
    /\ UNCHANGED cycleOthers

\* a variant of the step that updates the plots of paused windows too
CycleUpdateStep_ignore_pause ==
    /\ cPhase = "last"
    /\ cSys["update_plots_on_all_windows"] = "running"
    /\ cPos.w <= Len(cWindows)
    /\ LET window == cWindows[cPos.w]
       IN  /\ cWindows' =
                  [cWindows EXCEPT ![cPos.w].plots[cPos.i] =
                      HistogramData_update(@, ValuesOf(cSource))]
           /\ cFolded' = [cFolded EXCEPT ![<<cPos.w, cPos.i>>] = @ \o cSource]
           /\ cUpdated' = cUpdated \cup {<<cPos.w, cPos.i>>}
           /\ cPos' = IF cPos.i < Len(window.plots)
                      THEN [w |-> cPos.w, i |-> cPos.i + 1]
                      ELSE [w |-> cPos.w + 1, i |-> 1]
    /\ UNCHANGED <<cSource, cRecordedN, cCleared, cPhase, cSys, cClearRuns,
                   cCycle, cToggles>>
    /\ UNCHANGED cycleOthers

\* one iteration of update_plots_on_all_windows / update_plots: a paused
\* window is passed over, otherwise the next plot runs MetricPlot::update
CycleUpdateStep ==
    /\ cPhase = "last"
    /\ cSys["update_plots_on_all_windows"] = "running"
    /\ cPos.w <= Len(cWindows)
    /\ LET window == cWindows[cPos.w]
       IN  IF window.paused
           THEN /\ cPos' = [w |-> cPos.w + 1, i |-> 1]
                /\ UNCHANGED <<cWindows, cFolded, cUpdated>>
           ELSE /\ cWindows' =
                      [cWindows EXCEPT ![cPos.w].plots[cPos.i] =
                          HistogramData_update(@, ValuesOf(cSource))]
                /\ cFolded' = [cFolded EXCEPT ![<<cPos.w, cPos.i>>] = @ \o cSource]
                /\ cUpdated' = cUpdated \cup {<<cPos.w, cPos.i>>}
                /\ cPos' = IF cPos.i < Len(window.plots)
                           THEN [w |-> cPos.w, i |-> cPos.i + 1]
                           ELSE [w |-> cPos.w + 1, i |-> 1]
    /\ UNCHANGED <<cSource, cRecordedN, cCleared, cPhase, cSys, cClearRuns,
                   cCycle, cToggles>>
    /\ UNCHANGED cycleOthers

\* update_plots_on_all_windows returns
CycleUpdateFinish ==
    /\ cPhase = "last"
    /\ cSys["update_plots_on_all_windows"] = "running"
    /\ cPos.w > Len(cWindows)
    /\ cSys' = [cSys EXCEPT !["update_plots_on_all_windows"] = "done"]
    /\ UNCHANGED <<cWindows, cSource, cRecordedN, cCleared, cFolded, cPhase, cPos,
                   cUpdated, cClearRuns, cCycle, cToggles>>
    /\ UNCHANGED cycleOthers

\* the executor runs clear_atomic_buckets
CycleClear ==
    /\ cPhase = "last"
    /\ MayStart("clear_atomic_buckets", cSys)
    /\ cCleared' = cCleared \o cSource
    /\ cSource' = clear_atomic_buckets(cSource)
    /\ cSys' = [cSys EXCEPT !["clear_atomic_buckets"] = "done"]
    /\ cClearRuns' = cClearRuns + 1
    /\ UNCHANGED <<cWindows, cRecordedN, cFolded, cPhase, cPos, cUpdated,
                   cCycle, cToggles>>
    /\ UNCHANGED cycleOthers

\* every system of Last has run: the frame ends
CycleEndLast ==
    /\ cPhase = "last"
    /\ \A s \in LastSystems : cSys[s] = "done"
    /\ cPhase' = "frame"
    /\ cCycle' = cCycle + 1
    /\ UNCHANGED <<cWindows, cSource, cRecordedN, cCleared, cFolded, cSys, cPos,
                   cUpdated, cClearRuns, cToggles>>
    /\ UNCHANGED cycleOthers

NextCycle ==
    \/ CycleRecord
    \/ CycleTogglePause
    \/ CycleEnterLast
    \/ CycleUpdateStart
    \/ CycleUpdateStep
    \/ CycleUpdateFinish
    \/ CycleClear
    \/ CycleEndLast

(***************************************************************************)
(* SpecDescribe: threads call describe_counter, describe_gauge and         *)
(* describe_histogram.  A call builds its DescriptionKey and               *)
(* MetricDescription, takes the write lock of the description map, runs    *)
(* entry(key).or_insert(description) and returns, releasing the lock.      *)
(* dFirst[k] is the description of the first call for k that ran under     *)
(* the lock and dLast[k] that of the latest.                               *)
(***************************************************************************)
DescribeCall(t, kind) ==
    /\ dThreads[t].pc = "idle"
    /\ dCalls < MaxDescribeCalls
    /\ \E key_name \in DescNames, unit \in DescUnits, text \in DescTexts :
          dThreads' = [dThreads EXCEPT ![t] =
              [pc          |-> "lock",
               key         |-> [name |-> key_name, kind |-> kind],
               description |-> [unit |-> unit, text |-> text]]]
    /\ dCalls' = dCalls + 1
    /\ UNCHANGED <<descriptions, dLock, dFirst, dLast>>
    /\ UNCHANGED descOthers

describe_counter == \E t \in 1..NThreads : DescribeCall(t, "Counter")

describe_gauge == \E t \in 1..NThreads : DescribeCall(t, "Gauge")

describe_histogram == \E t \in 1..NThreads : DescribeCall(t, "Histogram")

\* self.inner.descriptions.write().unwrap()
DescribeLock ==
    \E t \in 1..NThreads :
        /\ dThreads[t].pc = "lock"
        /\ dLock = 0
        /\ dLock' = t
        /\ dThreads' = [dThreads EXCEPT ![t].pc = "insert"]
        /\ UNCHANGED <<descriptions, dFirst, dLast, dCalls>>
        /\ UNCHANGED descOthers

\* or_insert, then the guard is dropped and the call returns
DescribeInsert ==
    \E t \in 1..NThreads :
        /\ dThreads[t].pc = "insert"
        /\ dLock = t
        /\ descriptions' = add_description_if_missing(
                               descriptions, dThreads[t].key, dThreads[t].description)
        /\ dFirst' = IF is_some(dFirst[dThreads[t].key]) THEN dFirst
                     ELSE [dFirst EXCEPT ![dThreads[t].key] = Some(dThreads[t].description)]
        /\ dLast' = [dLast EXCEPT ![dThreads[t].key] = Some(dThreads[t].description)]
        /\ dLock' = 0
        /\ dThreads' = [dThreads EXCEPT ![t] = IdleThread]
        /\ UNCHANGED dCalls
        /\ UNCHANGED descOthers

NextDescribe ==
    \/ describe_counter
    \/ describe_gauge
    \/ describe_histogram
    \/ DescribeLock
    \/ DescribeInsert

(***************************************************************************)
(* SpecRegister: threads call register_counter and then increment through  *)
(* the handle they got.  A call is the lookup of the key and, when that    *)
(* found nothing, the creation step; other threads may run between the     *)
(* two.  regIncs[k] counts the increments made through handles for k.      *)
(***************************************************************************)
\* register_counter is called; the key is looked up
InitSpecSearchLive ==
    InitRingIdle /\ InitBucketIdle /\ InitHistIdle /\ InitCycleIdle /\ InitDescribeIdle /\ InitRegisterIdle /\ InitTreeIdle /\ InitSearchTasks /\ InitPluginIdle /\ InitDashIdle /\ InitTwIdle

RegisterLookup ==
    \E t \in 1..NThreads, key \in RegKeys :
        /\ regThreads[t].pc = "idle"
        /\ LET found == get_or_create_counter_lookup(reg, key)
               got   == register_counter(reg, unwrap(found))
           IN  IF is_some(found)
               THEN /\ reg' = got.reg
                    /\ regThreads' = [regThreads EXCEPT ![t] =
                           [pc |-> "ready", key |-> key, handle |-> Some(got.handle),
                            created |-> FALSE, incs |-> 0]]
               ELSE /\ reg' = reg
                    /\ regThreads' = [regThreads EXCEPT ![t] =
                           [pc |-> "insert", key |-> key, handle |-> None,
                            created |-> FALSE, incs |-> 0]]
        /\ UNCHANGED regIncs
        /\ UNCHANGED regOthers

\* the key was absent at the lookup: create the cell unless it is there now
RegisterInsert ==
    \E t \in 1..NThreads :
        /\ regThreads[t].pc = "insert"
        /\ LET r   == get_or_create_counter_insert(reg, regThreads[t].key)
               got == register_counter(r.reg, r.cell)
           IN  /\ reg' = got.reg
               /\ regThreads' = [regThreads EXCEPT ![t].pc = "ready",
                                                   ![t].handle = Some(got.handle),
                                                   ![t].created = TRUE]
        /\ UNCHANGED regIncs
        /\ UNCHANGED regOthers

RegisterIncrement ==
    \E t \in 1..NThreads :
        /\ regThreads[t].pc = "ready"
        /\ regThreads[t].incs < MaxIncrements
        /\ reg' = counter_increment(reg, unwrap(regThreads[t].handle))
        /\ regThreads' = [regThreads EXCEPT ![t].incs = @ + 1]
        /\ regIncs' = [regIncs EXCEPT ![regThreads[t].key] = @ + 1]
        /\ UNCHANGED regOthers

\* the thread is done with its handle
RegisterFinish ==
    \E t \in 1..NThreads :
        /\ regThreads[t].pc = "ready"
        /\ regThreads' = [regThreads EXCEPT ![t].pc = "done"]
        /\ UNCHANGED <<reg, regIncs>>
        /\ UNCHANGED regOthers

NextRegister ==
    \/ RegisterLookup
    \/ RegisterInsert
    \/ RegisterIncrement
    \/ RegisterFinish

(***************************************************************************)
(* SpecTree: metrics are registered under new names and the namespace tree *)
(* window refreshes.  A refresh lists the metrics of the registry and      *)
(* builds the tree from the list; treeBuilt is the list it was given.      *)
(***************************************************************************)
TreeRegister ==
    /\ Cardinality(treeNames) < MaxNames
    /\ \E name \in Names \ treeNames : treeNames' = treeNames \cup {name}
    /\ UNCHANGED <<treeRoots, treeBuilt>>
    /\ UNCHANGED treeOthers

\* the refresh task of NamespaceTreeWindow::draw
TreeRefresh ==
    /\ treeBuilt # Some(treeNames)
    /\ treeRoots' = tree_from_results(treeNames)
    /\ treeBuilt' = Some(treeNames)
    /\ UNCHANGED treeNames
    /\ UNCHANGED treeOthers

NextTree ==
    \/ TreeRegister
    \/ TreeRefresh

(***************************************************************************)
(* SpecSearch: metrics are registered and described, then the frames of    *)
(* the app draw the search bar while its search tasks run on the task      *)
(* pool.  A frame takes one of FrameTimes milliseconds.  sbLog describes   *)
(* the last draw:                                                          *)
(*   now        : its instant                                              *)
(*   spawned    : it spawned a search task                                 *)
(*   in_flight  : a task was running when it was called                    *)
(*   since_search : milliseconds since last_search_time                    *)
(*   changed_at : None, or Some(instant) of the latest change of the input *)
(***************************************************************************)
FrameTimes == {100, 300}

SearchInputs == {<<>>, <<"a">>, <<"b">>}

SearchRegister ==
    /\ sbFrames = 0
    /\ Cardinality(sbRegistry) < MaxMetrics
    /\ \E m \in MetricKeys \ sbRegistry : sbRegistry' = sbRegistry \cup {m}
    /\ UNCHANGED <<sbDescriptions, sb, sbTasks, sbNow, sbFrames, sbLog, sbEdits>>
    /\ UNCHANGED sbOthers

SearchDescribe ==
    /\ sbFrames = 0
    /\ Cardinality({k \in SearchDescKeys : is_some(sbDescriptions[k])}) < MaxSearchDescribes
    /\ \E key \in SearchDescKeys, unit \in {None, Some("ms")} :
          sbDescriptions' = add_description_if_missing(
                                sbDescriptions, key, [unit |-> unit, text |-> "a"])
    /\ UNCHANGED <<sbRegistry, sb, sbTasks, sbNow, sbFrames, sbLog, sbEdits>>
    /\ UNCHANGED sbOthers

SearchDraw ==
    /\ sbFrames < MaxFrames
    /\ \E dt \in FrameTimes,
          typed \in {None} \cup {Some(text) : text \in SearchInputs \ {sb.search_input}} :
          LET now   == sbNow + dt
              drawn == SearchBar_draw(sb, sbTasks, now, typed)
          IN  /\ sb' = drawn.bar
              /\ sbTasks' = drawn.tasks
              /\ sbNow' = now
              /\ sbLog' = Some(
                     [now          |-> now,
                      spawned      |-> Len(drawn.tasks) > Len(sbTasks),
                      in_flight    |-> /\ is_some(sb.search_task)
                                       /\ sbTasks[unwrap(sb.search_task)].status = "running",
                      since_search |-> now - sb.last_search_time,
                      changed_at   |-> IF is_some(typed) THEN Some(now)
                                       ELSE IF is_some(sbLog) THEN unwrap(sbLog).changed_at
                                       ELSE None])
    /\ sbFrames' = sbFrames + 1
    /\ UNCHANGED <<sbRegistry, sbDescriptions, sbEdits>>
    /\ UNCHANGED sbOthers

\* the task pool runs a spawned search to its end
SearchTaskRun ==
    /\ \E id \in 1..Len(sbTasks) :
          /\ sbTasks[id].status = "running"
          /\ sbTasks' = [sbTasks EXCEPT
                 ![id].results = fuzzy_search_by_name(sbRegistry, sbDescriptions, sbTasks[id].input),
                 ![id].status = "finished"]
    /\ UNCHANGED <<sbRegistry, sbDescriptions, sb, sbNow, sbFrames, sbLog, sbEdits>>
    /\ UNCHANGED sbOthers

NextSearch ==
    \/ SearchRegister
    \/ SearchDescribe
    \/ SearchDraw
    \/ SearchTaskRun

(***************************************************************************)
(* SpecSearchLive: the app draws the search bar in every frame, for ever,  *)
(* while the task pool runs its search tasks; the user changes the input   *)
(* at most MaxEdits times.  The registry is the one of SpecTasks and does  *)
(* not change.  draw reads the clock only through                          *)
(* last_search_time.elapsed(), so the instants are kept relative to        *)
(* last_search_time: that field stays 0 and sbNow is the time elapsed      *)
(* since, which stops counting at MaxElapsedMs, beyond the quiet period.   *)
(***************************************************************************)
MaxElapsedMs ==
    QuietPeriodMs + (CHOOSE dt \in FrameTimes : \A other \in FrameTimes : other <= dt)

SearchDrawLive ==
    /\ \E dt \in FrameTimes,
          typed \in {None} \cup {Some(text) : text \in
                        IF sbEdits < MaxEdits THEN SearchInputs \ {sb.search_input} ELSE {}} :
          \E drawn \in {SearchBar_draw(sb, sbTasks, sbNow + dt, typed)} :
              /\ sb' = [drawn.bar EXCEPT !.last_search_time = 0]
              /\ sbTasks' = drawn.tasks
              /\ sbNow' = Min(sbNow + dt - drawn.bar.last_search_time, MaxElapsedMs)
              /\ sbEdits' = IF is_some(typed) THEN sbEdits + 1 ELSE sbEdits
    /\ sbLog' = None
    /\ UNCHANGED <<sbRegistry, sbDescriptions, sbFrames>>
    /\ UNCHANGED sbOthers

NextSearchLive ==
    \/ SearchDrawLive
    \/ SearchTaskRun

(***************************************************************************)
(* SpecPlugin: a process with two apps.  Some code may install a recorder  *)
(* itself; each app is given one RegistryPlugin, made by new or by         *)
(* with_registry.  plLog[a] describes the build of app a:                  *)
(*   plugin   : the plugin built                                           *)
(*   conflict : a recorder was installed already                           *)
(*   panicked : build did not return                                       *)
(*   errors   : the error! lines build logged                              *)
(* plReg is the content of the registry resource of the first app: once    *)
(* the app is built metrics are registered, recorded to and described, and *)
(* the Last schedule of the app runs the systems build added to it.        *)
(*   plHandles   : the handles handed out, each [key, cell]                *)
(*   plDiscarded : the number of samples the clear steps discarded         *)
(***************************************************************************)
PluginRegistries == {"caller", "other"}

\* set_global_recorder called by the user of the crate
PluginInstallRecorder ==
    /\ plGlobal = None
    /\ \E recorder \in PluginRegistries :
          plGlobal' = set_global_recorder(plGlobal, recorder).global
    /\ UNCHANGED <<plApp, plErrors, plLog, plReg, plHandles, plOps, plClears, plDiscarded>>
    /\ UNCHANGED plOthers

\* app.add_plugins(plugin) runs RegistryPlugin::build
PluginBuild ==
    /\ \E a \in 1..Len(plApp),
          plugin \in {RegistryPlugin_new, RegistryPlugin_with_registry("caller")} :
          /\ ~is_some(plLog[a])
          /\ LET fresh == IF a = 1 THEN "default1" ELSE "default2"
                 built == RegistryPlugin_build(plugin, plApp[a], plGlobal, plErrors, fresh)
             IN  /\ plApp' = [plApp EXCEPT ![a] = built.app]
                 /\ plGlobal' = built.global
                 /\ plErrors' = built.errors
                 /\ plLog' = [plLog EXCEPT ![a] =
                        Some([plugin   |-> plugin,
                              conflict |-> is_some(plGlobal),
                              panicked |-> built.panicked,
                              errors   |-> built.errors - plErrors])]
    /\ UNCHANGED <<plReg, plHandles, plOps, plClears, plDiscarded>>
    /\ UNCHANGED plOthers

\* Recorder::register_counter / register_gauge / register_histogram
PluginRegister ==
    /\ is_some(plApp[1].resource)
    /\ plOps < MaxPluginOps
    /\ \E key \in DescKeys :
          LET got == Recorder_register(plReg, key)
          IN  /\ plReg' = got.reg
              /\ plHandles' = plHandles \cup {[key |-> key, cell |-> got.handle]}
    /\ plOps' = plOps + 1
    /\ UNCHANGED <<plGlobal, plApp, plErrors, plLog, plClears, plDiscarded>>
    /\ UNCHANGED plOthers

\* a producer records through a handle
PluginRecord ==
    /\ plOps < MaxPluginOps
    /\ \E h \in plHandles, v \in {1, 2} : plReg' = handle_record(plReg, h.cell, v)
    /\ plOps' = plOps + 1
    /\ UNCHANGED <<plGlobal, plApp, plErrors, plLog, plHandles, plClears, plDiscarded>>
    /\ UNCHANGED plOthers

\* Recorder::describe_counter / describe_gauge / describe_histogram
PluginDescribe ==
    /\ is_some(plApp[1].resource)
    /\ plOps < MaxPluginOps
    /\ \E key \in DescKeys, text \in DescTexts :
          plReg' = [plReg EXCEPT !.descriptions =
                       add_description_if_missing(@, key, [unit |-> None, text |-> text])]
    /\ plOps' = plOps + 1
    /\ UNCHANGED <<plGlobal, plApp, plErrors, plLog, plHandles, plClears, plDiscarded>>
    /\ UNCHANGED plOthers

\* the Last schedule of the first app runs a clear_atomic_buckets system
PluginClear ==
    /\ CountOf(plApp[1].last, "clear_atomic_buckets") >= 1
    /\ plClears < MaxPluginClears
    /\ plReg' = clear_registry_buckets(plReg)
    /\ plClears' = plClears + 1
    /\ plDiscarded' = plDiscarded
           + SumSeq([i \in 1..Len(plReg.cells) |-> Len(plReg.cells[i].block)])
    /\ UNCHANGED <<plGlobal, plApp, plErrors, plLog, plHandles, plOps>>
    /\ UNCHANGED plOthers

NextPlugin ==
    \/ PluginInstallRecorder
    \/ PluginBuild
    \/ PluginRegister
    \/ PluginRecord
    \/ PluginDescribe
    \/ PluginClear

(***************************************************************************)
(* SpecDash: one DashboardWindow and the CachedPlotConfigs resource.       *)
(* Plots are requested, the global settings and the plots are drawn, and   *)
(* the user of the crate may put configs of their own into the cache (the  *)
(* resource and the fields of the configs are public).  dashLast names the *)
(* last operation and dashPanicked says that it panicked.                  *)
(***************************************************************************)
\* the window sizes of caller-built configs: any usize, here 0 and the
\* sizes of the slider
CallerWindowSizes == 0..MaxWindow

DashUiEvents ==
    {[pause |-> TRUE, link |-> FALSE, slider |-> None],
     [pause |-> FALSE, link |-> TRUE, slider |-> None]}
        \cup {[pause |-> FALSE, link |-> FALSE, slider |-> Some(w)] : w \in WindowSizes}

\* cached_configs.insert(key, config) by the user of the crate
DashCacheConfig ==
    /\ ~dashPanicked
    /\ dashOps < MaxDashOps
    /\ \E key \in DashKeys, window_size \in CallerWindowSizes :
          /\ dashCached' = [dashCached EXCEPT ![key] = Some(
                 [kind   |-> key.kind,
                  config |-> IF key.kind = "Histogram"
                             THEN [HistogramPlotConfig_default EXCEPT
                                       !.window_size = Some(window_size)]
                             ELSE [CounterPlotConfig_default EXCEPT
                                       !.window_size = window_size]])]
          /\ dashInserted' = [dashInserted EXCEPT ![key] = TRUE]
    /\ dashOps' = dashOps + 1
    /\ dashLast' = "insert"
    /\ dashLog' = None
    /\ UNCHANGED <<dashWindow, dashPanicked, dashRemovedConfig>>
    /\ UNCHANGED dashOthers

\* add_plot for a RequestPlot event or a selected search result.
\* Ring::new(0) evaluates `size - 1` on a usize: a panic in a build with
\* overflow checks, a ring of no elements in a build without
DashAddPlot ==
    /\ ~dashPanicked
    /\ dashOps < MaxDashOps
    /\ Len(dashWindow.plots) < MaxPlots
    /\ \E key \in DashKeys :
          LET added == add_plot(dashWindow, dashCached, key)
              plot  == added.plots[Len(added.plots)]
          IN  \/ /\ dashWindow' = added
                 /\ UNCHANGED dashPanicked
              \/ /\ plot.kind # "Histogram"
                 /\ plot.data.config.window_size = 0
                 /\ dashPanicked' = TRUE
                 /\ UNCHANGED dashWindow
    /\ dashOps' = dashOps + 1
    /\ dashLast' = "add_plot"
    /\ dashLog' = None
    /\ UNCHANGED <<dashCached, dashRemovedConfig, dashInserted>>
    /\ UNCHANGED dashOthers

\* the "Global Settings" panel is drawn; the slider is there when the
\* axes are linked
DashConfigureUi ==
    /\ ~dashPanicked
    /\ dashOps < MaxDashOps
    /\ \E ev \in DashUiEvents :
          /\ is_some(ev.slider) => is_some(dashWindow.config.global_window_size)
          /\ dashWindow' = DashboardWindow_configure_ui(dashWindow, ev)
    /\ dashOps' = dashOps + 1
    /\ dashLast' = "configure_ui"
    /\ dashLog' = None
    /\ UNCHANGED <<dashCached, dashPanicked, dashRemovedConfig, dashInserted>>
    /\ UNCHANGED dashOthers

\* draw_plots: the user may click "Remove" on plots and move one slider
DashDrawPlots ==
    /\ ~dashPanicked
    /\ dashOps < MaxDashOps
    /\ \E removed \in SUBSET (1..Len(dashWindow.plots)),
          drag \in {None} \cup {Some([i |-> i, w |-> w]) :
                                    i \in 1..Len(dashWindow.plots), w \in WindowSizes} :
          \E drawn \in {draw_plots(dashWindow, dashCached, removed, drag)} :
              /\ dashWindow' = drawn.window
              /\ dashCached' = drawn.cached_configs
              /\ dashPanicked' = drawn.panicked
              /\ dashLog' = Some([removed          |-> removed,
                                  drawn            |-> drawn.drawn,
                                  removal_panicked |-> drawn.removal_panicked])
              \* of the plots of one key removed in this call, the one
              \* removed last is the first in the window
              /\ dashRemovedConfig' =
                     [k \in DashKeys |->
                         IF drawn.panicked \/ ~\E i \in removed : drawn.drawn[i].key = k
                         THEN dashRemovedConfig[k]
                         ELSE Some(clone_config(drawn.drawn[
                                  CHOOSE i \in removed :
                                      /\ drawn.drawn[i].key = k
                                      /\ \A j \in removed :
                                             drawn.drawn[j].key = k => i <= j]))]
              /\ dashInserted' =
                     [k \in DashKeys |->
                         IF drawn.panicked \/ ~\E i \in removed : drawn.drawn[i].key = k
                         THEN dashInserted[k]
                         ELSE FALSE]
    /\ dashOps' = dashOps + 1
    /\ dashLast' = "draw_plots"
    /\ UNCHANGED dashOthers

NextDash ==
    \/ DashCacheConfig
    \/ DashAddPlot
    \/ DashConfigureUi
    \/ DashDrawPlots

(***************************************************************************)
(* SpecTasks: the frames of an app that draws a search bar and a namespace *)
(* tree window over a registry, while the tasks they spawned run on the    *)
(* task pool and metrics are registered under new names.                   *)
(***************************************************************************)
\* names registered while the tree window is shown
TwNames == {<<"a">>, <<"a", ":", ":", "a">>}

\* the time between two draws of the tree window, in milliseconds
TwFrameTimes == {1000, 6000}

TwRegister ==
    /\ \E name \in TwNames \ twNames : twNames' = twNames \cup {name}
    /\ UNCHANGED <<tw, twTasks, twNow, twFrames>>
    /\ UNCHANGED twOthers

\* NamespaceTreeWindow::draw_all draws the window
TwDraw ==
    /\ twFrames < MaxTreeFrames
    /\ \E dt \in TwFrameTimes :
          LET now   == twNow + dt
              drawn == NamespaceTreeWindow_draw(tw, twTasks, now)
          IN  /\ tw' = drawn.window
              /\ twTasks' = drawn.tasks
              /\ twNow' = now
    /\ twFrames' = twFrames + 1
    /\ UNCHANGED twNames
    /\ UNCHANGED twOthers

\* the task pool runs a refresh task to its end: all_metrics and
\* tree_from_results
TwTaskRun ==
    /\ \E id \in 1..Len(twTasks) :
          /\ twTasks[id].status = "running"
          /\ twTasks' = [twTasks EXCEPT
                 ![id].results = tree_from_results(twNames).nodes,
                 ![id].status = "finished"]
    /\ UNCHANGED <<tw, twNow, twFrames, twNames>>
    /\ UNCHANGED twOthers

NextTasks ==
    \/ SearchDraw
    \/ SearchTaskRun
    \/ TwRegister
    \/ TwDraw
    \/ TwTaskRun

(***************************************************************************)
(* Specifications.                                                         *)
(***************************************************************************)
SpecRing == InitSpecRing /\ [][NextRing]_vars

SpecBucket == InitSpecBucket /\ [][NextBucket]_vars

SpecHist == InitSpecHist /\ [][NextHist]_vars

\* SpecHist for a plot made by MetricPlot::new from a caller-built config
SpecHistCaller == InitSpecHistCaller /\ [][NextHist]_vars

SpecCycle == InitSpecCycle /\ [][NextCycle]_vars

SpecDescribe == InitSpecDescribe /\ [][NextDescribe]_vars

SpecRegister == InitSpecRegister /\ [][NextRegister]_vars

SpecTree == InitSpecTree /\ [][NextTree]_vars

SpecSearch == InitSpecSearch /\ [][NextSearch]_vars

SpecPlugin == InitSpecPlugin /\ [][NextPlugin]_vars

SpecDash == InitSpecDash /\ [][NextDash]_vars

SpecTasks == InitSpecTasks /\ [][NextTasks]_vars

\* the frame loop keeps calling draw and the task pool keeps running the
\* tasks it was given
SpecSearchLive ==
    /\ InitSpecSearchLive
    /\ [][NextSearchLive]_vars
    /\ WF_vars(SearchDrawLive)
    /\ WF_vars(SearchTaskRun)

Init ==
    \/ InitSpecRing \/ InitSpecBucket \/ InitSpecHist \/ InitSpecCycle
    \/ InitSpecDescribe \/ InitSpecRegister \/ InitSpecTree \/ InitSpecSearch
    \/ InitSpecHistCaller \/ InitSpecPlugin \/ InitSpecDash
    \/ InitSpecTasks \/ InitSpecSearchLive

Next ==
    \/ NextRing \/ NextBucket \/ NextHist \/ NextCycle \/ NextDescribe
    \/ NextRegister \/ NextTree \/ NextSearch \/ NextPlugin
    \/ NextDash \/ NextTasks \/ NextSearchLive

Spec == Init /\ [][Next]_vars

\* the last logged operation, if any
LastOp == ringLog[Len(ringLog)]

(***************************************************************************)
(* C3: on a fresh ring of capacity C >= 1 (never resized), after n > C     *)
(* pushes iter_chronological yields exactly the last C pushed values,      *)
(* oldest first, and latest is the n-th pushed value.                      *)
(***************************************************************************)
C3_PushBeyondCapacity ==
    (ringResizes = 0 /\ size(ring) >= 1 /\ ringPushed > size(ring)) =>
        /\ iter_chronological(ring) =
              [k \in 1..size(ring) |-> ringPushed - size(ring) + k]
        /\ latest(ring) = ringPushed

C3_Witness ==
    /\ ringResizes = 0
    /\ size(ring) = 3
    /\ ringPushed = 5
    /\ ring.cursor = 1

(***************************************************************************)
(* C4: shrinking with resize(new_size), 1 <= new_size < size, leaves       *)
(* exactly the newest new_size elements in unchanged chronological order,  *)
(* with latest unchanged.                                                  *)
(***************************************************************************)
IsShrink(e) ==
    e.op = "resize" /\ e.arg >= 1 /\ e.arg < size(e.pre)

C4_ShrinkKeepsNewest ==
    (Len(ringLog) > 0 /\ IsShrink(LastOp)) =>
        /\ size(ring) = LastOp.arg
        /\ iter_chronological(ring) =
              LastN(iter_chronological(LastOp.pre), LastOp.arg)
        /\ latest(ring) = latest(LastOp.pre)

\* a shrink that had to move elements: the cursor was beyond the new end
C4_Witness ==
    /\ Len(ringLog) > 0
    /\ IsShrink(LastOp)
    /\ LastOp.pre.cursor > LastOp.arg
    /\ ringPushed >= 3
    /\ size(ring) >= 2

(***************************************************************************)
(* C5: growing with resize(new_size), new_size > size, loses no data:      *)
(* every element held before is still present, in the same chronological   *)
(* relative order, and latest is unchanged.                                *)
(***************************************************************************)
IsGrow(e) ==
    e.op = "resize" /\ size(e.pre) >= 1 /\ e.arg > size(e.pre)

\* the pushed values (stamps 1, 2, ...) of a sequence of slots, in order
IsPushed(v) == v # Default

PushedOf(s) == SelectSeq(s, IsPushed)

\* Stated for the pushed values only: slots that still hold the initial
\* T::default() are not counted as data.
C5_GrowLosesNoData ==
    (Len(ringLog) > 0 /\ IsGrow(LastOp)) =>
        /\ size(ring) = LastOp.arg
        /\ IsSubseq(PushedOf(iter_chronological(LastOp.pre)),
                    PushedOf(iter_chronological(ring)))
        /\ latest(ring) = latest(LastOp.pre)

(***************************************************************************)
(* C6: resize(C2) followed by resize(C1) on a ring of capacity C1, with    *)
(* no push in between, leaves the newest min(C1, C2) elements identical    *)
(* and in the same chronological order.                                    *)
(***************************************************************************)
IsRoundTrip ==
    /\ Len(ringLog) = 2
    /\ ringLog[1].op = "resize"
    /\ ringLog[2].op = "resize"
    /\ size(ringLog[1].pre) >= 1
    /\ ringLog[1].arg >= 1
    /\ ringLog[2].arg = size(ringLog[1].pre)

C6_ResizeRoundTrip ==
    IsRoundTrip =>
        LET m == Min(size(ringLog[1].pre), ringLog[1].arg)
        IN  LastN(iter_chronological(ring), m) =
               LastN(iter_chronological(ringLog[1].pre), m)

(***************************************************************************)
(* C7: for a strictly ascending boundary list b and a value v,             *)
(* add_value_to_bucket increments exactly one bucket by exactly 1 and      *)
(* changes no other; the bucket is the smallest index i with b[i] >= v,    *)
(* or the last bucket len(b) if there is none.  With boundaries [0, 10]:   *)
(* 5 -> bucket 1, -1 -> bucket 0, 15 -> bucket 2, 10 -> bucket 1.          *)
(***************************************************************************)
\* the smallest 0-based index whose boundary is >= v, or Len(b)
SmallestAtLeast(b, v) ==
    IF \E i \in 1..Len(b) : b[i] >= v
    THEN (CHOOSE i \in 1..Len(b) :
              b[i] >= v /\ \A j \in 1..(i - 1) : b[j] < v) - 1
    ELSE Len(b)

C7_ExactlyOneBucket ==
    /\ (Len(bkLast) = 1 =>
          LET idx == SmallestAtLeast(bkBounds, bkLast[1].value)
          IN  /\ Len(bkCounts) = Len(bkBounds) + 1
              /\ \A i \in 0..Len(bkBounds) :
                    At(bkCounts, i) =
                        At(bkLast[1].pre, i) + (IF i = idx THEN 1 ELSE 0))
    /\ add_value_to_bucket(<<0, 10>>, 5, <<0, 0, 0>>) = <<0, 1, 0>>
    /\ add_value_to_bucket(<<0, 10>>, 0 - 1, <<0, 0, 0>>) = <<1, 0, 0>>
    /\ add_value_to_bucket(<<0, 10>>, 15, <<0, 0, 0>>) = <<0, 0, 1>>
    /\ add_value_to_bucket(<<0, 10>>, 10, <<0, 0, 0>>) = <<0, 1, 0>>

\* a value equal to a boundary was added to a bucket that already counted
C7_Witness ==
    /\ Len(bkLast) = 1
    /\ Len(bkBounds) = 3
    /\ bkLast[1].value = bkBounds[2]
    /\ SumSeq(bkLast[1].pre) = 1
    /\ At(bkCounts, 1) = 2

(***************************************************************************)
(* C8: in windowed mode the window holds the most recent samples: after    *)
(* each update the bucketed samples are, as a multiset, the most recent    *)
(* min(n, window_size) of the n samples recorded so far, however the       *)
(* samples are split into per-cycle batches.  Stated here for a plot whose *)
(* settings were never touched and for n >= window_size, the case in       *)
(* which every slot of the window holds a recorded sample.                 *)
(***************************************************************************)
C8_WindowHoldsMostRecent ==
    (/\ Len(hLog) = 1
     /\ hLog[1].op = "update"
     /\ hUiEvents = 0
     /\ is_some(hist.config.window_size)
     /\ Len(hRecorded) >= unwrap(hist.config.window_size)) =>
        LET window_size == unwrap(hist.config.window_size)
        IN  /\ SameBag(iter_chronological(unwrap(hist.ring)),
                       LastN(hRecorded, window_size))
            /\ SumSeq(hist.bucket_counts) = window_size
            /\ hist.bucket_counts =
                  add_values_to_buckets(hist.config.buckets.bounds,
                      LastN(hRecorded, window_size), Zeros(Len(hist.bucket_counts)))

(***************************************************************************)
(* C9: in cumulative mode (window_size = None), between explicit resets    *)
(* (a configure_ui call: bounds reconfiguration or mode switch) no bucket  *)
(* count decreases, and each update increases the sum of the bucket counts *)
(* by exactly the number of samples in the raw sample block.               *)
(***************************************************************************)
C9_CumulativeOnlyGrows ==
    (/\ Len(hLog) = 1
     /\ hLog[1].op # "configure_ui"
     /\ ~is_some(hLog[1].pre.config.window_size)
     /\ ~is_some(hist.config.window_size)) =>
        /\ Len(hist.bucket_counts) = Len(hLog[1].pre.bucket_counts)
        /\ \A i \in 1..Len(hist.bucket_counts) :
              hist.bucket_counts[i] >= hLog[1].pre.bucket_counts[i]
        /\ (hLog[1].op = "update" =>
              SumSeq(hist.bucket_counts) =
                  SumSeq(hLog[1].pre.bucket_counts) + Len(hLog[1].block))
        /\ (hLog[1].op # "update" =>
              hist.bucket_counts = hLog[1].pre.bucket_counts)

\* a cumulative plot that already holds counts folds a block of two samples
C9_Witness ==
    /\ Len(hLog) = 1
    /\ hLog[1].op = "update"
    /\ ~is_some(hist.config.window_size)
    /\ SumSeq(hLog[1].pre.bucket_counts) >= 1
    /\ Len(hLog[1].block) = 2
    /\ SumSeq(hist.bucket_counts) = 3

(***************************************************************************)
(* C1: in every run of the Last schedule clear_atomic_buckets runs exactly *)
(* once, and only after update_plots_on_all_windows has finished updating  *)
(* every plot of every unpaused window; the clear never precedes or        *)
(* overlaps the updates of the same cycle.                                 *)
(***************************************************************************)
PlotsOfUnpausedWindows == {p \in PlotKeys : ~cWindows[p[1]].paused}

C1_ClearAfterAllUpdates ==
    /\ (cPhase = "last" /\ cSys["clear_atomic_buckets"] # "waiting") =>
          /\ cSys["update_plots_on_all_windows"] = "done"
          /\ cUpdated = PlotsOfUnpausedWindows
    /\ cSys["update_plots_on_all_windows"] = "running" =>
          cSys["clear_atomic_buckets"] = "waiting"
    /\ cClearRuns <= 1
    /\ (cPhase = "frame" /\ cCycle >= 1) => cClearRuns = 1

\* the clear has run in a cycle in which one window was paused and the
\* plots of the other were updated
C1_Witness ==
    /\ cPhase = "last"
    /\ cSys["clear_atomic_buckets"] = "done"
    /\ cWindows[2].paused
    /\ cUpdated = {<<1, 1>>, <<1, 2>>}
    /\ Len(cCleared) >= 1

(***************************************************************************)
(* C2: with every update ordered before the clear, no histogram data is    *)
(* missed: every sample recorded by any producer thread, at any point of   *)
(* the cycle, is folded exactly once into the bucket counts of each        *)
(* cumulative plot that exists and is unpaused since before the sample     *)
(* was recorded.                                                           *)
(***************************************************************************)
CumulativePlots ==
    {p \in PlotKeys : ~is_some(cWindows[p[1]].plots[p[2]].config.window_size)}

FoldCount(p, sample) == CountOf(IdsOf(cFolded[p]), sample.id)

C2_EverySampleFoldedOnce ==
    \A k \in 1..Len(cCleared) : \A p \in CumulativePlots :
        p[1] \notin cCleared[k].paused => FoldCount(p, cCleared[k]) = 1

(***************************************************************************)
(* C2 as amended: a sample recorded before the Last schedule of its cycle  *)
(* starts is folded exactly once into each cumulative plot of a window     *)
(* that was not paused since; no sample is ever folded twice; the bucket   *)
(* counts of a cumulative plot are the bucketing of the samples it folded. *)
(***************************************************************************)
C2_SampleBeforeLastFoldedOnce ==
    /\ \A k \in 1..Len(cCleared) : \A p \in CumulativePlots :
          (~cCleared[k].late /\ p[1] \notin cCleared[k].paused) =>
              FoldCount(p, cCleared[k]) = 1
    /\ \A k \in 1..Len(cCleared) : \A p \in CumulativePlots :
          FoldCount(p, cCleared[k]) <= 1
    /\ \A k \in 1..Len(cSource) : \A p \in CumulativePlots :
          FoldCount(p, cSource[k]) <= 1
    /\ \A p \in CumulativePlots :
          LET plot == cWindows[p[1]].plots[p[2]]
          IN  plot.bucket_counts =
                  add_values_to_buckets(plot.config.buckets.bounds,
                      ValuesOf(cFolded[p]), Zeros(Len(plot.bucket_counts)))

\* two cycles have run and both plots of window 1 folded, once each, a
\* sample of the first cycle and a sample of the second
C2_Witness ==
    /\ cCycle = 2
    /\ Len(cCleared) = 2
    /\ ~cCleared[1].late
    /\ ~cCleared[2].late
    /\ \A k \in 1..2 : \A p \in {<<1, 1>>, <<1, 2>>} :
          FoldCount(p, cCleared[k]) = 1
    /\ Len(cFolded[<<1, 1>>]) = 2
    /\ SumSeq(cWindows[1].plots[1].bucket_counts) = 2

(***************************************************************************)
(* C10: descriptions are write-once per (name, kind): for any sequence or  *)
(* interleaving of describe_counter / describe_gauge / describe_histogram  *)
(* calls the stored description is the unit and text of the first call to  *)
(* take effect and never changes afterwards; describe(k, ms, "a") then     *)
(* describe(k, s, "b") leaves unit = ms, text = "a".                       *)
(***************************************************************************)
C10_DescriptionWriteOnce ==
    /\ \A k \in DescKeys : descriptions[k] = dFirst[k]
    /\ add_description_if_missing(
           add_description_if_missing([k \in DescKeys |-> None],
               [name |-> "k", kind |-> "Counter"], [unit |-> Some("ms"), text |-> "a"]),
           [name |-> "k", kind |-> "Counter"], [unit |-> Some("s"), text |-> "b"])
         [[name |-> "k", kind |-> "Counter"]] = Some([unit |-> Some("ms"), text |-> "a"])

\* two threads described the same gauge differently; both calls returned
C10_Witness ==
    /\ \A t \in 1..NThreads : dThreads[t].pc = "idle"
    /\ dFirst[[name |-> "k", kind |-> "Gauge"]] = Some([unit |-> Some("ms"), text |-> "a"])
    /\ dLast[[name |-> "k", kind |-> "Gauge"]] = Some([unit |-> Some("s"), text |-> "b"])
    /\ descriptions[[name |-> "k", kind |-> "Gauge"]] = Some([unit |-> Some("ms"), text |-> "a"])
(***************************************************************************)
(* C11: threads that register the same counter key concurrently all get    *)
(* handles to the one cell the registry holds for the key, no cell exists  *)
(* besides the registered ones, and once every thread is done the cell of  *)
(* a key holds the sum of the increments made through the handles for it.  *)
(***************************************************************************)
C11_OneCellPerKey ==
    /\ \A t \in 1..NThreads :
           is_some(regThreads[t].handle)
               => reg.counters[regThreads[t].key] = regThreads[t].handle
    /\ Len(reg.cells) = Cardinality({k \in RegKeys : is_some(reg.counters[k])})
    /\ (\A t \in 1..NThreads : regThreads[t].pc = "done")
           => \A k \in RegKeys :
                  is_some(reg.counters[k])
                      => reg.cells[unwrap(reg.counters[k])] = regIncs[k]

\* every thread registered the same key before any cell for it existed,
\* each went through the creation step, and each incremented
C11_Witness ==
    /\ \A t \in 1..NThreads :
           /\ regThreads[t].pc = "done"
           /\ regThreads[t].key = "a"
           /\ regThreads[t].created
           /\ regThreads[t].incs >= 1
    /\ regIncs["a"] >= 2

\* the names of the metrics shown as leaves in a list of nodes
RECURSIVE LeafNames(_)
LeafNames(nodes) ==
    UNION {IF nodes[i].variant = "Metric" THEN {nodes[i].result}
           ELSE LeafNames(nodes[i].children) : i \in 1..Len(nodes)}

\* a name with an empty segment: empty, or a ':' at either end, or ":::"
Malformed(name) ==
    \/ Len(name) = 0
    \/ name[1] = ":"
    \/ name[Len(name)] = ":"
    \/ Occurrences(name, <<":", ":", ":">>) # {}

\* non-empty segments without ':' joined by "::"
WellFormed(name) ==
    /\ ~Malformed(name)
    /\ \A i \in 1..Len(name) :
           name[i] = ":" => (name[i - 1] = ":" \/ name[i + 1] = ":")

RECURSIVE EveryNamespaceShowsAMetric(_)
EveryNamespaceShowsAMetric(nodes) ==
    \A i \in 1..Len(nodes) :
        nodes[i].variant = "Namespace"
            => /\ LeafNames(nodes[i].children) # {}
               /\ EveryNamespaceShowsAMetric(nodes[i].children)

(***************************************************************************)
(* C12: whatever names the tree is built from, the builder does not panic, *)
(* no malformed name (one with an empty segment) is shown as a leaf, no    *)
(* Namespace node is without a metric, and every well-formed name of the   *)
(* input is shown.                                                         *)
(***************************************************************************)
C12_MalformedNamesDropped ==
    is_some(treeBuilt) =>
        /\ ~treeRoots.panicked
        /\ \A name \in unwrap(treeBuilt) :
               /\ Malformed(name) => name \notin LeafNames(treeRoots.nodes)
               /\ WellFormed(name) => name \in LeafNames(treeRoots.nodes)
        /\ EveryNamespaceShowsAMetric(treeRoots.nodes)

RECURSIVE EveryNamespaceHasTwoChildren(_)
EveryNamespaceHasTwoChildren(nodes) ==
    \A i \in 1..Len(nodes) :
        nodes[i].variant = "Namespace"
            => /\ Len(nodes[i].children) >= 2
               /\ EveryNamespaceHasTwoChildren(nodes[i].children)

(***************************************************************************)
(* C13: in every tree the builder returns each Namespace node has at least *)
(* two children; a chain of single-child groups is one node: the tree of   *)
(* a single well-formed name is one Metric node whose display path is the  *)
(* whole name.                                                             *)
(***************************************************************************)
C13_NamespacesHaveTwoChildren ==
    (is_some(treeBuilt) /\ ~treeRoots.panicked) =>
        /\ EveryNamespaceHasTwoChildren(treeRoots.nodes)
        /\ \A name \in unwrap(treeBuilt) :
               (unwrap(treeBuilt) = {name} /\ WellFormed(name))
                   => treeRoots.nodes = <<Metric(name, name)>>

\* a Namespace node made by collapsing a single-child group into its
\* Namespace child, and a Metric node made by collapsing one into its leaf
C13_Witness ==
    /\ is_some(treeBuilt)
    /\ ~treeRoots.panicked
    /\ \E i \in 1..Len(treeRoots.nodes) :
           /\ treeRoots.nodes[i].variant = "Namespace"
           /\ Len(treeRoots.nodes[i].children) = 2
           /\ Occurrences(treeRoots.nodes[i].display_path, DELIM) # {}

\* the tasks of the search bar that were spawned and have neither
\* returned nor been dropped
OutstandingTasks == {id \in 1..Len(sbTasks) : sbTasks[id].status = "running"}

(***************************************************************************)
(* C14: a search bar has at most one search task outstanding, and a draw   *)
(* called while a task is running does not spawn another: the new query    *)
(* waits until the running task has resolved.                              *)
(***************************************************************************)
C14_NoSpawnWhileInFlight ==
    /\ Cardinality(OutstandingTasks) <= 1
    /\ is_some(sbLog) => ~(unwrap(sbLog).spawned /\ unwrap(sbLog).in_flight)

(***************************************************************************)
(* C15: a draw spawns a search only when the input has not changed during  *)
(* the last 250 ms.                                                        *)
(***************************************************************************)
C15_SpawnOnlyAfterQuietPeriod ==
    (is_some(sbLog) /\ unwrap(sbLog).spawned /\ is_some(unwrap(sbLog).changed_at))
        => unwrap(sbLog).now - unwrap(unwrap(sbLog).changed_at) >= QuietPeriodMs

(***************************************************************************)
(* C15 as amended: a draw spawns a search only when more than 250 ms have  *)
(* passed since the previous spawn (since the bar was made, for the first  *)
(* one); how long the input has been unchanged plays no part.              *)
(***************************************************************************)
C15_SpawnOnlyAfterLastSearch ==
    (is_some(sbLog) /\ unwrap(sbLog).spawned)
        => unwrap(sbLog).since_search > QuietPeriodMs

\* a search was spawned in the very frame in which the input changed
C15_Witness ==
    /\ is_some(sbLog)
    /\ unwrap(sbLog).spawned
    /\ unwrap(sbLog).changed_at = Some(unwrap(sbLog).now)
    /\ Len(sbTasks) = 2
    /\ sbTasks[1].status = "joined"

\* the searches that have returned
ReturnedTasks == {id \in 1..Len(sbTasks) : sbTasks[id].status \in {"finished", "joined"}}

(***************************************************************************)
(* C16: the results of fuzzy_search_by_name(input) are the registered      *)
(* metrics whose name the matcher gives a score for input, each once (all  *)
(* of them for the empty input), and each result carries the description   *)
(* stored for its name and kind, or none when there is none.               *)
(***************************************************************************)
C16_SearchReturnsMatches ==
    \A id \in ReturnedTasks :
        LET results == sbTasks[id].results
            input   == sbTasks[id].input
        IN  /\ {results[i].key : i \in 1..Len(results)}
                   = {m \in sbRegistry : is_some(fuzzy_match(m.key.name, input))}
            /\ \A i, j \in 1..Len(results) : results[i].key = results[j].key => i = j
            /\ input = <<>> => Len(results) = Cardinality(sbRegistry)
            /\ \A i \in 1..Len(results) :
                   results[i].description
                       = sbDescriptions[[name |-> results[i].key.key.name,
                                         kind |-> results[i].key.kind]]

\* a search for "b" returned a described gauge and left out a registered
\* metric whose name does not match
C16_Witness ==
    \E id \in ReturnedTasks :
        /\ sbTasks[id].input = <<"b">>
        /\ Len(sbTasks[id].results) = 1
        /\ Cardinality(sbRegistry) = 2
        /\ sbTasks[id].results[1].key.kind = "Gauge"
        /\ is_some(sbTasks[id].results[1].description)

\* the last configure_ui call changed a DragValue, so that it called
\* update_bounds_from_input, and left the other widgets alone
IsBoundsRequest(e) ==
    /\ e.op = "configure_ui"
    /\ is_some(e.ev.n_buckets) \/ is_some(e.ev.min) \/ is_some(e.ev.max)
    /\ ~e.ev.toggle
    /\ ~is_some(e.ev.slider)

(***************************************************************************)
(* C17: a request for new bounds made while the input asks for zero        *)
(* buckets is refused: after it the bounds, the bucket counts and all      *)
(* else of the plot are as before, the edited range_input apart.           *)
(***************************************************************************)
C17_ZeroBucketsRejected ==
    (/\ Len(hLog) = 1
     /\ IsBoundsRequest(hLog[1])
     /\ hist.config.buckets.range_input.n_buckets = 0)
        => /\ hist.config.buckets.bounds = hLog[1].pre.config.buckets.bounds
           /\ hist.bucket_counts = hLog[1].pre.bucket_counts
           /\ hist = [hLog[1].pre EXCEPT !.config.buckets.range_input =
                                             hist.config.buckets.range_input]

\* zero buckets were requested of a plot that had counted samples
C17_Witness ==
    /\ Len(hLog) = 1
    /\ IsBoundsRequest(hLog[1])
    /\ hLog[1].ev.n_buckets = Some(0)
    /\ hLog[1].pre.config.buckets.range_input.n_buckets > 0
    /\ SumSeq(hLog[1].pre.bucket_counts) >= 1
    /\ hist.bucket_counts = hLog[1].pre.bucket_counts

\* a list of bucket boundaries the engine can use: non-empty, strictly
\* ascending
IsBoundaryList(b) ==
    /\ Len(b) >= 1
    /\ \A i \in 1..(Len(b) - 1) : b[i] < b[i + 1]

(***************************************************************************)
(* C18: the boundary list of a histogram plot, also of one made from a     *)
(* caller-built configuration, is non-empty and strictly ascending         *)
(* whenever update looks values up in it or the bar chart is built.        *)
(***************************************************************************)
C18_BoundsAreSanitized ==
    (Len(hLog) = 1 /\ hLog[1].op = "update")
        => /\ IsBoundaryList(hLog[1].pre.config.buckets.bounds)
           /\ IsBoundaryList(hist.config.buckets.bounds)

(***************************************************************************)
(* C19: in every state of a histogram plot, whatever its configuration     *)
(* was made from and whatever updates, reconfigurations and mode switches  *)
(* it went through, bucket_counts has one element more than bounds.        *)
(***************************************************************************)
C19_CountsMatchBounds ==
    Len(hist.bucket_counts) = Len(hist.config.buckets.bounds) + 1

\* an accepted reconfiguration changed the number of boundaries of a plot
\* that had counted samples
C19_Witness ==
    /\ Len(hLog) = 1
    /\ hLog[1].op = "configure_ui"
    /\ Len(hist.config.buckets.bounds) # Len(hLog[1].pre.config.buckets.bounds)
    /\ SumSeq(hLog[1].pre.bucket_counts) >= 1
    /\ Len(hist.bucket_counts) = Len(hist.config.buckets.bounds) + 1

(***************************************************************************)
(* C20: a ring that was constructed with capacity C and pushed to k times  *)
(* (never resized) exposes only pushed values: iter_chronological yields   *)
(* min(k, C) elements, each of them a pushed value, and latest is a pushed *)
(* value exactly when k >= 1.                                              *)
(***************************************************************************)
C20_OnlyPushedValuesExposed ==
    (ringResizes = 0 /\ ~ringPanicked) =>
        /\ Len(iter_chronological(ring)) = Min(ringPushed, Len(ring.elements))
        /\ \A i \in 1..Len(iter_chronological(ring)) :
               IsPushed(iter_chronological(ring)[i])
        /\ (ringPushed >= 1 <=> IsPushed(latest(ring)))

(***************************************************************************)
(* C21: installing the registry when a process-wide recorder is already    *)
(* installed is a non-fatal conflict: RegistryPlugin::build never aborts,  *)
(* whether built with a caller-provided registry (the conflict is ignored) *)
(* or with the default constructor (the conflict is reported), and in both *)
(* cases it inserts the MetricsRegistry resource and schedules the clear   *)
(* step exactly once.                                                      *)
(***************************************************************************)
C21_BuildNeverAborts ==
    \A a \in 1..Len(plApp) :
        is_some(plLog[a]) =>
            LET b == unwrap(plLog[a])
                provided == is_some(b.plugin.registry)
            IN  /\ ~b.panicked
                /\ plApp[a].resource =
                       Some(IF provided THEN unwrap(b.plugin.registry)
                            ELSE IF a = 1 THEN "default1" ELSE "default2")
                /\ CountOf(plApp[a].last, "clear_atomic_buckets") = 1
                /\ b.errors = IF b.conflict /\ ~provided THEN 1 ELSE 0

\* both apps were built while a recorder was installed, one with the
\* caller's registry and one with the default constructor
C21_Witness ==
    /\ is_some(plLog[1])
    /\ is_some(plLog[2])
    /\ unwrap(plLog[1]).conflict
    /\ unwrap(plLog[2]).conflict
    /\ unwrap(plLog[1]).plugin = RegistryPlugin_with_registry("caller")
    /\ unwrap(plLog[2]).plugin = RegistryPlugin_new
    /\ plGlobal = Some("other")
    /\ plErrors = 1

(***************************************************************************)
(* C25: registered metrics are never evicted and the clear step touches    *)
(* only histogram sample blocks: clear_atomic_buckets leaves the set of    *)
(* registered keys, every counter value, every gauge value and every       *)
(* description unchanged, and every handle obtained before the clear still *)
(* refers to the cell the registry holds for its key.                      *)
(***************************************************************************)
C25_ClearTouchesOnlyBuckets ==
    [][/\ \A k \in DescKeys :
              is_some(plReg.metrics[k]) => plReg'.metrics[k] = plReg.metrics[k]
       /\ plClears' # plClears =>
              /\ plReg'.metrics = plReg.metrics
              /\ plReg'.descriptions = plReg.descriptions
              /\ Len(plReg'.cells) = Len(plReg.cells)
              /\ \A i \in 1..Len(plReg.cells) :
                    /\ plReg'.cells[i].kind = plReg.cells[i].kind
                    /\ plReg'.cells[i].value = plReg.cells[i].value
                    /\ plReg.cells[i].kind # "Histogram" =>
                           plReg'.cells[i] = plReg.cells[i]
              /\ \A h \in plHandles : plReg'.metrics[h.key] = Some(h.cell)]_vars

\* a clear step discarded a sample of a histogram while a counter that had
\* been incremented was registered, and both handles are still held
C25_Witness ==
    /\ plClears >= 1
    /\ plDiscarded >= 1
    /\ Cardinality(plHandles) = 2
    /\ \E h \in plHandles :
          /\ h.key.kind = "Counter"
          /\ plReg.cells[h.cell].value >= 1
    /\ \E h \in plHandles :
          /\ h.key.kind = "Histogram"
          /\ plReg.cells[h.cell].block = <<>>

\* the window size of a plot, None for a cumulative histogram, and its
\* ring, None for a histogram that has none
WindowSizeOf(plot) ==
    IF plot.kind = "Histogram" THEN plot.data.config.window_size
    ELSE Some(plot.data.config.window_size)

RingOf(plot) ==
    IF plot.kind = "Histogram" THEN plot.data.ring ELSE Some(plot.data.ring)

(***************************************************************************)
(* C22: the window size of every plot is a positive integer inside the     *)
(* slider's range in every reachable state, whether set by the slider, by  *)
(* the global window size or supplied through a caller-built or cached     *)
(* MetricPlotConfig; a ring is never created or resized with size 0.       *)
(***************************************************************************)
C22_WindowSizeInRange ==
    /\ ~dashPanicked
    /\ \A i \in 1..Len(dashWindow.plots) :
          LET plot == dashWindow.plots[i]
          IN  /\ is_some(WindowSizeOf(plot)) => unwrap(WindowSizeOf(plot)) \in WindowSizes
              /\ is_some(RingOf(plot)) => size(unwrap(RingOf(plot))) > 0

(***************************************************************************)
(* C23: when the window's global_window_size is Some(w), after the plots   *)
(* of the window have been drawn every plot of the window, of every metric *)
(* kind, has window size w and a ring of capacity w.                       *)
(***************************************************************************)
C23_GlobalWindowSizeSynchronizes ==
    (dashLast = "draw_plots" /\ ~dashPanicked
        /\ is_some(dashWindow.config.global_window_size)) =>
        \A i \in 1..Len(dashWindow.plots) :
            LET plot == dashWindow.plots[i]
            IN  /\ WindowSizeOf(plot) = dashWindow.config.global_window_size
                /\ is_some(RingOf(plot))
                /\ Some(size(unwrap(RingOf(plot)))) = dashWindow.config.global_window_size

(***************************************************************************)
(* C24: plot names are unique within a DashboardWindow: after any sequence *)
(* of add_plot calls, including repeated adds of one key and adds of keys  *)
(* that differ only in labels, interleaved with plot removals, no two      *)
(* plots of the window have the same name.                                 *)
(***************************************************************************)
C24_PlotNamesUnique ==
    \A i, j \in 1..Len(dashWindow.plots) :
        i # j => dashWindow.plots[i].name # dashWindow.plots[j].name

C27_LastIssuedWins ==
    [][/\ sb'.search_results # sb.search_results =>
              /\ Len(sbTasks) >= 1
              /\ sbTasks[Len(sbTasks)].status = "finished"
              /\ sbTasks'[Len(sbTasks)].status = "joined"
              /\ sb'.search_results = sort_by_name(sbTasks[Len(sbTasks)].results)
       /\ \A id \in 1..Len(sbTasks) :
              /\ sbTasks[id].status = "dropped" => sbTasks'[id].status = "dropped"
              /\ sbTasks[id].status = "running" => sbTasks'[id].status # "joined"
              /\ (sbTasks[id].status # "joined" /\ sbTasks'[id].status = "joined") =>
                     id = Len(sbTasks)
       /\ tw'.roots # tw.roots =>
              /\ Len(twTasks) >= 1
              /\ Len(twTasks') = Len(twTasks)
              /\ twTasks[Len(twTasks)].status = "finished"
              /\ twTasks'[Len(twTasks)].status = "joined"
              /\ tw'.roots = twTasks[Len(twTasks)].results
       /\ \A id \in 1..Len(twTasks) :
              /\ twTasks[id].status = "dropped" => twTasks'[id].status = "dropped"
              /\ twTasks[id].status = "running" => twTasks'[id].status # "joined"
              /\ (twTasks[id].status # "joined" /\ twTasks'[id].status = "joined") =>
                     id = Len(twTasks)]_vars

\* in both widgets a first task was replaced by a second one, and the
\* result of the second one, which is not empty, is displayed
C27_Witness ==
    /\ Len(sbTasks) = 2
    /\ sbTasks[1].status = "dropped"
    /\ sbTasks[2].status = "joined"
    /\ Len(sb.search_results) >= 1
    /\ sb.search_results = sort_by_name(sbTasks[2].results)
    /\ Len(twTasks) = 2
    /\ twTasks[1].status = "dropped"
    /\ twTasks[2].status = "joined"
    /\ Len(tw.roots) >= 1
    /\ tw.roots = twTasks[2].results

(***************************************************************************)
(* C28: pausing a DashboardWindow pauses all of its plots: in every cycle  *)
(* in which config.paused is true, update_plots_on_all_windows leaves the  *)
(* ring contents and the bucket counts of every plot of that window        *)
(* unchanged, while the plots of unpaused windows are still updated in the *)
(* same cycle.                                                             *)
(***************************************************************************)
C28_PausedWindowsKeepTheirPlots ==
    /\ [][cPhase = "last" =>
             \A w \in 1..Len(cWindows) :
                 cWindows[w].paused => cWindows'[w] = cWindows[w]]_vars
    /\ []((cPhase = "last" /\ cSys["update_plots_on_all_windows"] = "done") =>
             \A p \in PlotKeys : ~cWindows[p[1]].paused => p \in cUpdated)

\* in the second cycle window 2 is paused: its plot, updated in the first
\* cycle, was passed over, and both plots of window 1 read the new sample
C28_Witness ==
    /\ cCycle = 1
    /\ cPhase = "last"
    /\ cSys["update_plots_on_all_windows"] = "done"
    /\ cWindows[2].paused
    /\ ~cWindows[1].paused
    /\ is_some(cWindows[2].plots[1].ring)
    /\ Len(cFolded[<<2, 1>>]) = 1
    /\ Len(cFolded[<<1, 1>>]) = 2
    /\ Len(cFolded[<<1, 2>>]) = 2

(***************************************************************************)
(* C29: in windowed histogram mode, after every HistogramData::update the  *)
(* bucket counts are exactly the bucketing of the ring's entire current    *)
(* contents under the current bounds: counts of the previous cycle are not *)
(* carried over, and the sum of all bucket counts equals the number of     *)
(* elements yielded by the ring's iter_chronological.                      *)
(***************************************************************************)
C29_WindowedCountsAreTheRingsBucketing ==
    (/\ Len(hLog) = 1
     /\ hLog[1].op = "update"
     /\ is_some(hist.config.window_size)) =>
        /\ is_some(hist.ring)
        /\ LET contents == iter_chronological(unwrap(hist.ring))
               bounds   == hist.config.buckets.bounds
           IN  /\ hist.bucket_counts =
                      add_values_to_buckets(bounds, contents, Zeros(Len(bounds) + 1))
               /\ SumSeq(hist.bucket_counts) = Len(contents)

\* a second update of a windowed plot whose counts were not zero before it
\* and which read a new sample
C29_Witness ==
    /\ Len(hLog) = 1
    /\ hLog[1].op = "update"
    /\ is_some(hist.config.window_size)
    /\ is_some(hLog[1].pre.ring)
    /\ SumSeq(hLog[1].pre.bucket_counts) > 0
    /\ Len(hLog[1].block) >= 1
    /\ hist.bucket_counts # hLog[1].pre.bucket_counts

\* every metric shown under a group is a member of the group: at the
\* group's offset its name reads the group's path followed by "::".  A
\* group of one child is shown as that child with the group's path put
\* before its own, so the path of a Metric node up to its last "::" is the
\* path of the groups it was placed under.
RECURSIVE GroupsHoldOwnMembers(_, _)
GroupsHoldOwnMembers(nodes, path_start) ==
    \A i \in 1..Len(nodes) :
        LET node   == nodes[i]
            groups == rsplit_once(node.display_path, DELIM)
        IN  IF node.variant = "Namespace"
            THEN /\ \A name \in LeafNames(node.children) :
                        /\ path_start <= Len(name)
                        /\ starts_with(SliceFrom(name, path_start),
                                       node.display_path \o DELIM)
                 /\ GroupsHoldOwnMembers(node.children,
                        path_start + Len(node.display_path) + Len(DELIM))
            ELSE is_some(groups) =>
                     /\ path_start <= Len(node.result)
                     /\ starts_with(SliceFrom(node.result, path_start),
                                    unwrap(groups)[1] \o DELIM)

(***************************************************************************)
(* C30: a namespace group contains only its own members: every Metric leaf *)
(* placed under a group named g at path offset p has a name whose text at  *)
(* offset p is exactly g followed by "::"; a name that merely begins with  *)
(* the characters of g is not taken into g's run, and building never       *)
(* slices a name beyond its end, for any input list.                       *)
(***************************************************************************)
C30_GroupsContainOnlyOwnMembers ==
    is_some(treeBuilt) =>
        /\ ~treeRoots.panicked
        /\ GroupsHoldOwnMembers(treeRoots.nodes, 0)

\* the display paths of the Namespace nodes above a Metric leaf and its own
\* display path, joined with "::", read the name of the metric; ancestors is
\* the joined path of the nodes above, with its trailing "::"
RECURSIVE DisplayPathsJoinToName(_, _)
DisplayPathsJoinToName(nodes, ancestors) ==
    \A i \in 1..Len(nodes) :
        IF nodes[i].variant = "Metric"
        THEN ancestors \o nodes[i].display_path = nodes[i].result
        ELSE DisplayPathsJoinToName(nodes[i].children,
                 ancestors \o nodes[i].display_path \o DELIM)

(***************************************************************************)
(* C31: display paths reconstruct the metric name: for every Metric leaf   *)
(* of the tree built by tree_from_results, joining the display paths of    *)
(* its ancestor Namespace nodes and its own display path with "::" gives   *)
(* exactly the metric's full name, also for collapsed nodes and for names  *)
(* with a single ':' inside a segment (such as "a:b").                     *)
(***************************************************************************)
C31_DisplayPathsReconstructName ==
    (is_some(treeBuilt) /\ ~treeRoots.panicked) =>
        DisplayPathsJoinToName(treeRoots.nodes, <<>>)

\* the number of Metric leaves of a list of nodes that show the metric name
RECURSIVE LeafCount(_, _)
LeafCount(nodes, name) ==
    IF Len(nodes) = 0 THEN 0
    ELSE (IF Head(nodes).variant = "Metric"
          THEN (IF Head(nodes).result = name THEN 1 ELSE 0)
          ELSE LeafCount(Head(nodes).children, name))
         + LeafCount(Tail(nodes), name)

(***************************************************************************)
(* C32: the namespace tree neither duplicates nor loses metrics: for every *)
(* input list the builder returns a tree in which each entry is shown by   *)
(* at most one Metric leaf, and each entry with a well-formed name (not    *)
(* empty, every segment between "::" non-empty and without ':') by exactly *)
(* one.                                                                    *)
(***************************************************************************)
C32_NoMetricDuplicatedOrLost ==
    is_some(treeBuilt) =>
        /\ ~treeRoots.panicked
        /\ \A name \in unwrap(treeBuilt) :
               /\ LeafCount(treeRoots.nodes, name) <= 1
               /\ WellFormed(name) => LeafCount(treeRoots.nodes, name) = 1

(***************************************************************************)
(* C34: when several plots are marked for removal in one draw_plots call,  *)
(* exactly the marked plots are removed: no unmarked plot is removed       *)
(* because of index shifting, no removal indexes out of range, and the     *)
(* remaining plots keep their relative order.                              *)
(***************************************************************************)
C34_ExactlyMarkedPlotsRemoved ==
    (dashLast = "draw_plots" /\ is_some(dashLog)) =>
        /\ ~unwrap(dashLog).removal_panicked
        /\ ~dashPanicked =>
               dashWindow.plots =
                   remove_all(unwrap(dashLog).drawn, unwrap(dashLog).removed)

\* the first two of three plots were marked in one call and the third,
\* which differs from both, is the one that remains
C34_Witness ==
    /\ dashLast = "draw_plots"
    /\ ~dashPanicked
    /\ is_some(dashLog)
    /\ Len(unwrap(dashLog).drawn) = 3
    /\ unwrap(dashLog).removed = {1, 2}
    /\ unwrap(dashLog).drawn[3] \notin {unwrap(dashLog).drawn[1], unwrap(dashLog).drawn[2]}
    /\ dashWindow.plots = <<unwrap(dashLog).drawn[3]>>

\* the plot that the last add_plot pushed
AddedPlot == dashWindow.plots[Len(dashWindow.plots)]

C35_NewSlotsHoldOldestValue ==
    (Len(ringLog) > 0 /\ IsGrow(LastOp)) =>
        /\ size(ring) = LastOp.arg
        /\ \A i \in 1..(LastOp.arg - size(LastOp.pre)) :
               iter_chronological(ring)[i] = iter_chronological(LastOp.pre)[1]

(***************************************************************************)
(* C36: windowed histogram counts never include values that no producer    *)
(* recorded: after any sequence of updates, window-size changes and        *)
(* clears, the sum of the bucket counts of a windowed histogram plot is at *)
(* most the number of samples recorded for the metric (hRecorded holds all *)
(* of them, so at least those recorded since the plot's ring was created); *)
(* it is zero before the first sample.                                     *)
(***************************************************************************)
C36_WindowedCountsOnlyRecordedSamples ==
    is_some(hist.config.window_size) =>
        SumSeq(hist.bucket_counts) <= Len(hRecorded)

(***************************************************************************)
(* C37 as stated: after RegistryPlugin::build the MetricsRegistry resource *)
(* of the app is the registry that the process-wide recorder writes to, in *)
(* every case: default constructor or caller-provided registry, and        *)
(* whether or not a recorder was already installed.                        *)
(***************************************************************************)
C37_ResourceIsTheRecorder ==
    \A a \in 1..Len(plApp) :
        is_some(plLog[a]) => plApp[a].resource = plGlobal

(***************************************************************************)
(* C37 amended: the resource is the process-wide recorder exactly when     *)
(* build installed it (no recorder was installed before) or the recorder   *)
(* installed before is the caller-provided registry itself; built over any *)
(* other recorder, the resource is a registry the recorder does not write  *)
(* to.  The installed recorder is never replaced, so plGlobal is still the *)
(* recorder the build met.                                                 *)
(***************************************************************************)
C37_ResourceIsTheRecorderUnlessConflict ==
    \A a \in 1..Len(plApp) :
        is_some(plLog[a]) =>
            LET b == unwrap(plLog[a])
            IN  (plApp[a].resource = plGlobal)
                    <=> (~b.conflict \/ b.plugin.registry = plGlobal)

\* the caller installed its registry by hand and built the first app with
\* it; the second app was then built with the default constructor
C37_Witness ==
    /\ is_some(plLog[1])
    /\ is_some(plLog[2])
    /\ plGlobal = Some("caller")
    /\ unwrap(plLog[1]).conflict
    /\ unwrap(plLog[1]).plugin = RegistryPlugin_with_registry("caller")
    /\ plApp[1].resource = plGlobal
    /\ unwrap(plLog[2]).plugin = RegistryPlugin_new
    /\ plApp[2].resource = Some("default2")

(***************************************************************************)
(* C38: when draw keeps being called, the spawned tasks finish and the     *)
(* input stops changing, then from some frame on input_dirty is false, no  *)
(* task is pending and search_results is the sorted search result of the   *)
(* registry for the input text; with no change of the input at all that is *)
(* the match-all result of the empty query.                                *)
(***************************************************************************)
SearchSettled ==
    /\ ~sb.input_dirty
    /\ ~is_some(sb.search_task)
    /\ sb.search_results =
           sort_by_name(fuzzy_search_by_name(sbRegistry, sbDescriptions, sb.search_input))

C38_ResultsEventuallyReflectInput ==
    /\ <>[]SearchSettled
    /\ <>[](sbEdits = 0 => Len(sb.search_results) = Cardinality(sbRegistry))

\* the input was changed twice, a search was abandoned for a newer one, and
\* the results are those of the final text, which does not match everything
C38_Witness ==
    /\ SearchSettled
    /\ sbEdits = MaxEdits
    /\ sb.search_input = <<"b">>
    /\ Len(sb.search_results) < Cardinality(sbRegistry)
    /\ \E id \in 1..Len(sbTasks) : sbTasks[id].status = "dropped"

(***************************************************************************)
(* C39: after every sequence of push and resize(m) on a Ring::new(n), m =  *)
(* 0 included, the cursor is a valid index (cursor < size()) and no        *)
(* operation has indexed out of bounds, divided by zero or underflowed.    *)
(***************************************************************************)
C39_CursorValidAndNoPanic ==
    /\ ~ringPanicked
    /\ ring.cursor < size(ring)

====
